---- MODULE Spec2Model ----
(***************************************************************************)
(* A model of the two self-balancing ordered maps of the forest package:   *)
(*   forest/binary_trees/avl_tree.py        (AVLTree)                      *)
(*   forest/binary_trees/red_black_tree.py  (RBTree)                       *)
(* and of the generators of forest/binary_trees/traversal.py that read     *)
(* them.                                                                   *)
(*                                                                         *)
(* Node objects live in an arena: a node is an identifier in NodeIds and   *)
(* every field of the Python dataclass is a function from identifiers to   *)
(* values.  Identifier 0 stands for "no node": None in the AVL tree, a     *)
(* Leaf object in the red-black tree.  A public call (insert, delete) is   *)
(* one action; its loops are RECURSIVE operators over the tree record.     *)
(***************************************************************************)
EXTENDS Integers, Sequences, FiniteSets, TLC

(***************************************************************************)
(* Bounds of the model.                                                    *)
(***************************************************************************)
MaxKey == 4
MaxData == 2
MaxInversions == 3

Keys == 1..MaxKey
Data == 1..MaxData

\* The keys of the reference tree of the test suite, in insertion order
\* (the basic_tree fixture of tests/conftest.py).
basic_tree == <<23, 4, 30, 11, 7, 34, 20, 24, 22, 15, 1>>

Max(a, b) == IF a >= b THEN a ELSE b

\* One identifier for every node object that can be alive at a time.
NodeIds == 1..Max(MaxKey, Len(basic_tree))

NONE == 0

(***************************************************************************)
(* Objects that nothing refers to any more are reclaimed by the Python     *)
(* runtime.  Live(t) is the set of node objects that can be reached from   *)
(* the tree object through left, right and parent references.              *)
(***************************************************************************)
RECURSIVE Closure(_, _)
Closure(t, S) ==
    LET step == S \cup { t.left[n] : n \in S } \cup { t.right[n] : n \in S }
                  \cup { t.parent[n] : n \in S }
        T == step \ {0}
    IN IF T = S THEN S ELSE Closure(t, T)

Live(t) == Closure(t, {t.root} \ {0})

\* The identity of a new node object: any identifier that no live object
\* has.  The one equal to the key is taken when it is free.
FreeId(t, k) ==
    IF k \in NodeIds \ Live(t) THEN k
    ELSE CHOOSE n \in NodeIds \ Live(t) : \A m \in NodeIds \ Live(t) : n <= m

\* No loop of the program visits a node more than a few times: a loop that
\* has run this many rounds does not finish.
StepLimit == 4 * Cardinality(NodeIds) + 4

\* One more round of a fixup loop in the running call, and the verdict on a
\* loop that is still running after StepLimit rounds.
Round(t) == [t EXCEPT !.rounds = @ + 1]
NoReturn(t) == [t EXCEPT !.err = "diverges"]

(***************************************************************************)
(*                              AVL tree                                   *)
(***************************************************************************)
AVLEmptyTree ==
    [root |-> NONE,
     key |-> [n \in NodeIds |-> 0],
     data |-> [n \in NodeIds |-> 0],
     left |-> [n \in NodeIds |-> NONE],
     right |-> [n \in NodeIds |-> NONE],
     parent |-> [n \in NodeIds |-> NONE],
     height |-> [n \in NodeIds |-> 0],
     subtree_size |-> [n \in NodeIds |-> 1],
     inversion_count |-> 0,
     err |-> "none"]

\* avl_tree.Node(key=key, data=data): the other fields take their defaults.
AVLNewNode(t, n, k, v) ==
    [t EXCEPT !.key[n] = k, !.data[n] = v, !.left[n] = NONE, !.right[n] = NONE,
              !.parent[n] = NONE, !.height[n] = 0, !.subtree_size[n] = 1]

\* Reclaim the node objects that are no longer referenced.
AVLCollect(t) ==
    LET live == Live(t)
        keep(f, d) == [n \in NodeIds |-> IF n \in live THEN f[n] ELSE d]
    IN [t EXCEPT !.key = keep(t.key, 0), !.data = keep(t.data, 0),
                 !.left = keep(t.left, NONE), !.right = keep(t.right, NONE),
                 !.parent = keep(t.parent, NONE), !.height = keep(t.height, 0),
                 !.subtree_size = keep(t.subtree_size, 1)]

(***************************************************************************)
(* a == b on two avl_tree.Node objects (or None).  The dataclass compares  *)
(* the field tuples, each element by identity first: the same object is    *)
(* equal to itself, a node never equals None, and two nodes with different *)
(* keys differ at the first field.                                         *)
(***************************************************************************)
AVLNodeEq(t, a, b) ==
    IF a = b THEN TRUE
    ELSE IF a = NONE \/ b = NONE THEN FALSE
    ELSE IF t.key[a] # t.key[b] THEN FALSE
    ELSE /\ t.data[a] = t.data[b]
         /\ t.left[a] = t.left[b]
         /\ t.right[a] = t.right[b]
         /\ t.parent[a] = t.parent[b]
         /\ t.height[a] = t.height[b]
         /\ t.subtree_size[a] = t.subtree_size[b]

AVLGetHeight(t, n) == IF n # NONE THEN t.height[n] ELSE -1

AVLGetBalanceFactor(t, n) ==
    IF n # NONE
    THEN AVLGetHeight(t, t.left[n]) - AVLGetHeight(t, t.right[n])
    ELSE -1

AVLGetSubtreeSize(t, n) == IF n = NONE THEN 0 ELSE t.subtree_size[n]

RECURSIVE AVLSearchFrom(_, _, _)
AVLSearchFrom(t, k, current) ==
    IF current = NONE THEN NONE
    ELSE IF k < t.key[current] THEN AVLSearchFrom(t, k, t.left[current])
    ELSE IF k > t.key[current] THEN AVLSearchFrom(t, k, t.right[current])
    ELSE current

AVLSearch(t, k) == AVLSearchFrom(t, k, t.root)

\* A slip in get_leftmost: the descent to the left is left out.
AVLGetLeftmostNoDescent(t, n) == n

RECURSIVE AVLGetLeftmost(_, _)
AVLGetLeftmost(t, n) ==
    IF t.left[n] # NONE THEN AVLGetLeftmost(t, t.left[n]) ELSE n

\* A slip in get_rightmost: the descent stops after one step.
AVLGetRightmostOneStep(t, n) ==
    IF t.right[n] # NONE THEN t.right[n] ELSE n

RECURSIVE AVLGetRightmost(_, _)
AVLGetRightmost(t, n) ==
    IF t.right[n] # NONE THEN AVLGetRightmost(t, t.right[n]) ELSE n

\* The loop of get_predecessor: up while node is the left child of parent.
RECURSIVE AVLPredecessorClimb(_, _, _)
AVLPredecessorClimb(t, node, parent) ==
    IF parent # NONE /\ AVLNodeEq(t, node, t.left[parent])
    THEN AVLPredecessorClimb(t, parent, t.parent[parent])
    ELSE parent

AVLGetPredecessor(t, node) ==
    IF t.left[node] # NONE THEN AVLGetRightmost(t, t.left[node])
    ELSE AVLPredecessorClimb(t, node, t.parent[node])

\* The loop of get_successor: up while node is the right child of parent.
RECURSIVE AVLSuccessorClimb(_, _, _)
AVLSuccessorClimb(t, node, parent) ==
    IF parent # NONE /\ AVLNodeEq(t, node, t.right[parent])
    THEN AVLSuccessorClimb(t, parent, t.parent[parent])
    ELSE parent

\* A slip in get_successor: the parent is returned without the climb.
AVLGetSuccessorNoClimb(t, node) ==
    IF t.right[node] # NONE THEN AVLGetLeftmost(t, t.right[node])
    ELSE t.parent[node]

AVLGetSuccessor(t, node) ==
    IF t.right[node] # NONE THEN AVLGetLeftmost(t, t.right[node])
    ELSE AVLSuccessorClimb(t, node, t.parent[node])

\* node.height = 1 + max(height of node.left, height of node.right)
AVLUpdateHeight(t, n) ==
    [t EXCEPT !.height[n] =
        1 + Max(AVLGetHeight(t, t.left[n]), AVLGetHeight(t, t.right[n]))]

\* node.subtree_size = 1 + size of node.left + size of node.right
AVLUpdateSize(t, n) ==
    [t EXCEPT !.subtree_size[n] =
        1 + AVLGetSubtreeSize(t, t.left[n]) + AVLGetSubtreeSize(t, t.right[n])]

\* The heights and sizes that both rotations recompute, lower node first.
AVLRotateUpdate(t, x, y) ==
    AVLUpdateSize(AVLUpdateSize(AVLUpdateHeight(AVLUpdateHeight(t, x), y), x), y)

\* The end of a rotation: the rotation counter of the tree goes up by one.
\* The call keeps, besides the count, which node was rotated and to which
\* side.
AVLRotateCount(t, x, left) ==
    [t EXCEPT !.rotated = Append(@, [at |-> t.key[x], left |-> left])]

\* Hang y where x hung: below x's parent, or as the root.
AVLHang(t, x, y) ==
    IF t.parent[x] = NONE THEN [t EXCEPT !.root = y]
    ELSE IF AVLNodeEq(t, x, t.left[t.parent[x]])
         THEN [t EXCEPT !.left[t.parent[x]] = y]
         ELSE [t EXCEPT !.right[t.parent[x]] = y]

\* n.parent = m.parent, when n is a node.
AVLTakeParent(t, n, m) ==
    IF n # NONE THEN [t EXCEPT !.parent[n] = t.parent[m]] ELSE t

\* _left_rotate, first part: the left subtree of xr becomes the right
\* subtree of x.
AVLLeftRotateInner(t, x, xr) ==
    IF t.left[xr] # NONE
    THEN [t EXCEPT !.right[x] = t.left[xr], !.parent[t.left[xr]] = x]
    ELSE [t EXCEPT !.right[x] = t.left[xr]]

\* _left_rotate, second part: xr takes the place of x, and x hangs as the
\* left child of xr.
AVLLeftRotateLink(t, x, xr) ==
    [AVLHang(AVLTakeParent(t, xr, x), x, xr) EXCEPT !.left[xr] = x, !.parent[x] = xr]

AVLLeftRotate(t, x) ==
    IF t.err # "none" THEN t
    ELSE IF t.right[x] = NONE THEN [t EXCEPT !.err = "RuntimeError"]
    ELSE AVLRotateCount(
             AVLRotateUpdate(
                 AVLLeftRotateLink(AVLLeftRotateInner(t, x, t.right[x]), x, t.right[x]),
                 x, t.right[x]),
             x, TRUE)

\* _right_rotate, first part: the right subtree of xl becomes the left
\* subtree of x.
AVLRightRotateInner(t, x, xl) ==
    IF t.right[xl] # NONE
    THEN [t EXCEPT !.left[x] = t.right[xl], !.parent[t.right[xl]] = x]
    ELSE [t EXCEPT !.left[x] = t.right[xl]]

\* _right_rotate, second part: xl takes the place of x, and x hangs as the
\* right child of xl.
AVLRightRotateLink(t, x, xl) ==
    [AVLHang(AVLTakeParent(t, xl, x), x, xl) EXCEPT !.right[xl] = x, !.parent[x] = xl]

AVLRightRotate(t, x) ==
    IF t.err # "none" THEN t
    ELSE IF t.left[x] = NONE THEN [t EXCEPT !.err = "RuntimeError"]
    ELSE AVLRotateCount(
             AVLRotateUpdate(
                 AVLRightRotateLink(AVLRightRotateInner(t, x, t.left[x]), x, t.left[x]),
                 x, t.left[x]),
             x, FALSE)

\* A slip in _insert_fixup: the left-right case is treated as left-left.
AVLStraightenLeftNever(t, n) == t

\* The left-right case: the child is rotated left first when it leans right.
AVLStraightenLeft(t, n) ==
    IF AVLGetBalanceFactor(t, n) < 0 THEN AVLLeftRotate(t, n) ELSE t

\* A slip in _insert_fixup: the right-left case is treated as right-right.
AVLStraightenRightNever(t, n) == t

\* The right-left case: the child is rotated right first when it leans left.
AVLStraightenRight(t, n) ==
    IF AVLGetBalanceFactor(t, n) > 0 THEN AVLRightRotate(t, n) ELSE t

RECURSIVE AVLInsertFixupLoop(_, _)

\* The body of the while loop of _insert_fixup once the height of parent is
\* refreshed: one rebalancing that ends the loop, or a step up.
AVLInsertFixupBody(t, parent) ==
    IF t.parent[parent] # NONE /\ AVLGetBalanceFactor(t, t.parent[parent]) > 1
    THEN AVLRightRotate(AVLStraightenLeft(t, parent), t.parent[parent])
    ELSE IF t.parent[parent] # NONE /\ AVLGetBalanceFactor(t, t.parent[parent]) < -1
    THEN AVLLeftRotate(AVLStraightenRight(t, parent), t.parent[parent])
    ELSE AVLInsertFixupLoop(t, t.parent[parent])

\* The while loop of _insert_fixup, entered with the loop variable parent.
AVLInsertFixupLoop(t, parent) ==
    IF parent = NONE \/ t.err # "none" THEN t
    ELSE IF t.rounds >= StepLimit THEN NoReturn(t)
    ELSE AVLInsertFixupBody(AVLUpdateHeight(Round(t), parent), parent)

AVLInsertFixup(t, new_node) == AVLInsertFixupLoop(t, t.parent[new_node])

\* A slip in _delete_fixup: the left-heavy case is rotated to the left.
AVLDeleteFixupBalanceWrongSide(t, fixing_node) ==
    IF AVLGetBalanceFactor(t, fixing_node) > 1
    THEN AVLLeftRotate(t, fixing_node)
    ELSE IF AVLGetBalanceFactor(t, fixing_node) < -1
    THEN AVLLeftRotate(AVLStraightenRight(t, t.right[fixing_node]), fixing_node)
    ELSE t

\* The rebalancing of _delete_fixup at fixing_node, its height refreshed.
AVLDeleteFixupBalance(t, fixing_node) ==
    IF AVLGetBalanceFactor(t, fixing_node) > 1
    THEN AVLRightRotate(AVLStraightenLeft(t, t.left[fixing_node]), fixing_node)
    ELSE IF AVLGetBalanceFactor(t, fixing_node) < -1
    THEN AVLLeftRotate(AVLStraightenRight(t, t.right[fixing_node]), fixing_node)
    ELSE t

RECURSIVE AVLDeleteFixup(_, _)

\* A slip in _delete_fixup: fixing_node is not moved up to its parent.
AVLDeleteFixupStay(t, fixing_node) == AVLDeleteFixup(t, fixing_node)

\* fixing_node = fixing_node.parent, and the next round of the loop.
AVLDeleteFixupUp(t, fixing_node) == AVLDeleteFixup(t, t.parent[fixing_node])

\* The while loop of _delete_fixup.
AVLDeleteFixup(t, fixing_node) ==
    IF fixing_node = NONE \/ t.err # "none" THEN t
    ELSE IF t.rounds >= StepLimit THEN NoReturn(t)
    ELSE AVLDeleteFixupUp(
             AVLDeleteFixupBalance(AVLUpdateHeight(Round(t), fixing_node), fixing_node),
             fixing_node)

\* A slip in _transplant: the root reference is not retargeted.
AVLTransplantKeepRoot(t, deleting_node, replacing_node) ==
    IF t.parent[deleting_node] = NONE
    THEN AVLTakeParent(t, replacing_node, deleting_node)
    ELSE AVLTakeParent(AVLHang(t, deleting_node, replacing_node),
                       replacing_node, deleting_node)

AVLTransplant(t, deleting_node, replacing_node) ==
    AVLTakeParent(AVLHang(t, deleting_node, replacing_node),
                  replacing_node, deleting_node)

\* if parent: self._delete_fixup(fixing_node=parent)
AVLDeleteFixupFrom(t, parent) ==
    IF parent # NONE THEN AVLDeleteFixup(t, parent) ELSE t

\* A slip in _delete_no_child: the fixup after the removal is left out.
AVLDeleteNoChildNoFixup(t, deleting_node) ==
    AVLTransplant(t, deleting_node, NONE)

AVLDeleteNoChild(t, deleting_node) ==
    AVLDeleteFixupFrom(AVLTransplant(t, deleting_node, NONE), t.parent[deleting_node])

AVLDeleteOneChild(t, deleting_node) ==
    AVLDeleteFixupFrom(
        AVLTransplant(t, deleting_node,
                      IF t.right[deleting_node] # NONE
                      THEN t.right[deleting_node] ELSE t.left[deleting_node]),
        t.parent[deleting_node])

\* insert, on a step to the left: the size of current.right is refreshed.
AVLRefreshRightSize(t, current) ==
    IF t.right[current] # NONE THEN AVLUpdateSize(t, t.right[current]) ELSE t

\* insert, on a step to the left: current and its right subtree are counted.
AVLCountInversions(t, current) ==
    [t EXCEPT !.inversion_count = @ + 1 + AVLGetSubtreeSize(t, t.right[current])]

\* The descent of insert: it counts inversions and refreshes sizes on the
\* way down, before it knows whether the key is a duplicate.
RECURSIVE AVLInsertDescend(_, _, _, _)
AVLInsertDescend(t, k, current, parent) ==
    IF current = NONE THEN [t |-> t, parent |-> parent]
    ELSE IF k < t.key[current]
    THEN AVLInsertDescend(
             AVLCountInversions(AVLRefreshRightSize(t, current), current),
             k, t.left[current], current)
    ELSE IF k > t.key[current]
    THEN AVLInsertDescend(t, k, t.right[current], current)
    ELSE [t |-> [t EXCEPT !.err = "DuplicateKeyError"], parent |-> current]

\* insert: the new node becomes the left or the right child of parent.
AVLInsertHang(t, k, parent, new_node) ==
    IF k < t.key[parent] THEN [t EXCEPT !.left[parent] = new_node]
    ELSE [t EXCEPT !.right[parent] = new_node]

\* A slip in insert: the fixup is left out.
AVLInsertRebalanceNever(t, parent, new_node) == t

\* insert: the fixup is run unless parent has two children now.
AVLInsertRebalance(t, parent, new_node) ==
    IF ~(t.left[parent] # NONE /\ t.right[parent] # NONE)
    THEN AVLInsertFixup(t, new_node)
    ELSE t

\* insert after the descent, new_node holding parent in its parent field.
AVLInsertLink(t, k, parent, new_node) ==
    IF parent = NONE THEN [t EXCEPT !.root = new_node]
    ELSE AVLInsertRebalance(AVLInsertHang(t, k, parent, new_node), parent, new_node)

\* insert once the descent has returned d: nothing more when it raised.
AVLInsertAt(d, k, v, new_node) ==
    IF d.t.err # "none" THEN d.t
    ELSE AVLInsertLink([AVLNewNode(d.t, new_node, k, v) EXCEPT !.parent[new_node] = d.parent],
                       k, d.parent, new_node)

AVLInsert(t0, k, v) ==
    AVLInsertAt(AVLInsertDescend([t0 EXCEPT !.err = "none"], k, t0.root, NONE),
                k, v, FreeId(t0, k))

\* Case 2 of delete, the end: the successor, which has no left child, is
\* removed.
AVLDeleteSuccessor(t, replacing_node) ==
    IF t.right[replacing_node] # NONE
    THEN AVLDeleteOneChild(t, replacing_node)
    ELSE AVLDeleteNoChild(t, replacing_node)

\* Case 2 of delete with the slip that the successor's key is copied and its
\* data is not.
AVLCopyKeyOnly(t, deleting_node, replacing_node) ==
    AVLDeleteSuccessor([t EXCEPT !.key[deleting_node] = t.key[replacing_node]],
                       replacing_node)

\* Case 2 of delete: the node takes the key and data of its in-order
\* successor, and the successor is removed.
AVLCopyAndDelete(t, deleting_node, replacing_node) ==
    AVLDeleteSuccessor([t EXCEPT !.key[deleting_node] = t.key[replacing_node],
                                 !.data[deleting_node] = t.data[replacing_node]],
                       replacing_node)

AVLDeleteTwoChildrenKeyOnly(t, deleting_node) ==
    AVLCopyKeyOnly(t, deleting_node, AVLGetLeftmost(t, t.right[deleting_node]))

AVLDeleteTwoChildren(t, deleting_node) ==
    AVLCopyAndDelete(t, deleting_node, AVLGetLeftmost(t, t.right[deleting_node]))

\* A slip in delete: a key that is not found raises KeyError.
AVLDeleteNodeRaising(t, deleting_node) ==
    IF t.root # NONE /\ deleting_node # NONE
    THEN IF t.left[deleting_node] = NONE /\ t.right[deleting_node] = NONE
         THEN AVLDeleteNoChild(t, deleting_node)
         ELSE IF t.left[deleting_node] # NONE /\ t.right[deleting_node] # NONE
         THEN AVLDeleteTwoChildren(t, deleting_node)
         ELSE AVLDeleteOneChild(t, deleting_node)
    ELSE [t EXCEPT !.err = "KeyError"]

\* delete once search has returned deleting_node.
AVLDeleteNode(t, deleting_node) ==
    IF t.root # NONE /\ deleting_node # NONE
    THEN IF t.left[deleting_node] = NONE /\ t.right[deleting_node] = NONE
         THEN AVLDeleteNoChild(t, deleting_node)
         ELSE IF t.left[deleting_node] # NONE /\ t.right[deleting_node] # NONE
         THEN AVLDeleteTwoChildren(t, deleting_node)
         ELSE AVLDeleteOneChild(t, deleting_node)
    ELSE t

AVLDelete(t0, k) == AVLDeleteNode([t0 EXCEPT !.err = "none"], AVLSearch(t0, k))

\* BinaryTree.empty: the root is not a binary_tree.Node.
AVLIsEmpty(t) == t.root = NONE

\* traversal._inorder_traverse: the (key, data) pairs, left, node, right.
RECURSIVE AVLInorderFrom(_, _)
AVLInorderFrom(t, n) ==
    IF n # NONE
    THEN AVLInorderFrom(t, t.left[n]) \o << <<t.key[n], t.data[n]>> >>
            \o AVLInorderFrom(t, t.right[n])
    ELSE << >>

AVLInorderTraverse(t) == AVLInorderFrom(t, t.root)

(***************************************************************************)
(*             forest/binary_trees/traversal.py on an AVL tree             *)
(*                                                                         *)
(* A traversal is a generator.  The recursive generators are modelled by   *)
(* the sequence of pairs they yield.  The generators that keep an explicit *)
(* stack are modelled by their loop, one call of the loop operator for     *)
(* each round of `while`, and return a record: out is the sequence of      *)
(* pairs yielded, err is "none" when the generator is exhausted, the name  *)
(* of the exception when one is raised, and "diverges" when the loop is    *)
(* still running after StepLimit rounds.                                   *)
(***************************************************************************)
Pair(t, n) == <<t.key[n], t.data[n]>>

Top(stack) == stack[Len(stack)]
Pop(stack) == SubSeq(stack, 1, Len(stack) - 1)

Exhausted(out) == [out |-> out, err |-> "none"]
Diverges(out) == [out |-> out, err |-> "diverges"]
\* `raise StopIteration` in the body of a generator reaches the caller as a
\* RuntimeError (PEP 479).
RaisedStopIteration == [out |-> << >>, err |-> "RuntimeError"]

RECURSIVE AVLReverseInorderFrom(_, _)
AVLReverseInorderFrom(t, n) ==
    IF n # NONE
    THEN AVLReverseInorderFrom(t, t.right[n]) \o << Pair(t, n) >>
            \o AVLReverseInorderFrom(t, t.left[n])
    ELSE << >>

RECURSIVE AVLPreorderFrom(_, _)
AVLPreorderFrom(t, n) ==
    IF n # NONE
    THEN << Pair(t, n) >> \o AVLPreorderFrom(t, t.left[n])
            \o AVLPreorderFrom(t, t.right[n])
    ELSE << >>

RECURSIVE AVLPostorderFrom(_, _)
AVLPostorderFrom(t, n) ==
    IF n # NONE
    THEN AVLPostorderFrom(t, t.left[n]) \o AVLPostorderFrom(t, t.right[n])
            \o << Pair(t, n) >>
    ELSE << >>

\* The stack before the loop: the second child of the root when it has one,
\* then the root.
StackOfRoot(root, second) ==
    IF second # NONE THEN <<second, root>> ELSE <<root>>

\* _inorder_traverse_non_recursive: the while loop.
RECURSIVE AVLInorderLoop(_, _, _, _, _)
RECURSIVE AVLInorderPopped(_, _, _, _, _)
AVLInorderLoop(t, stack, current, out, fuel) ==
    IF fuel = 0 THEN Diverges(out)
    ELSE IF current # NONE
    THEN IF t.right[current] # NONE
         THEN AVLInorderLoop(t, Append(Append(stack, t.right[current]), current),
                             t.left[current], out, fuel - 1)
         ELSE AVLInorderLoop(t, Append(stack, current), t.left[current], out,
                             fuel - 1)
    ELSE IF stack # << >>
    THEN AVLInorderPopped(t, Pop(stack), Top(stack), out, fuel)
    ELSE Exhausted(out)

\* The round of the loop after current = stack.pop().
AVLInorderPopped(t, stack, current, out, fuel) ==
    IF t.right[current] = NONE
    THEN AVLInorderLoop(t, stack, NONE, Append(out, Pair(t, current)), fuel - 1)
    ELSE IF stack # << >> /\ AVLNodeEq(t, t.right[current], Top(stack))
    THEN AVLInorderLoop(t, Pop(stack), Top(stack),
                        Append(out, Pair(t, current)), fuel - 1)
    ELSE AVLInorderLoop(t, stack, current, out, fuel - 1)

AVLInorderNonRecursive(t, root) ==
    IF root = NONE THEN RaisedStopIteration
    ELSE AVLInorderLoop(t, StackOfRoot(root, t.right[root]), t.left[root],
                        << >>, StepLimit)

\* _reverse_inorder_traverse_non_recursive: the while loop.
RECURSIVE AVLReverseInorderLoop(_, _, _, _, _)
RECURSIVE AVLReverseInorderPopped(_, _, _, _, _)
AVLReverseInorderLoop(t, stack, current, out, fuel) ==
    IF fuel = 0 THEN Diverges(out)
    ELSE IF current # NONE
    THEN IF t.left[current] # NONE
         THEN AVLReverseInorderLoop(t, Append(Append(stack, t.left[current]), current),
                                    t.right[current], out, fuel - 1)
         ELSE AVLReverseInorderLoop(t, Append(stack, current), t.right[current],
                                    out, fuel - 1)
    ELSE IF stack # << >>
    THEN AVLReverseInorderPopped(t, Pop(stack), Top(stack), out, fuel)
    ELSE Exhausted(out)

AVLReverseInorderPopped(t, stack, current, out, fuel) ==
    IF t.left[current] = NONE
    THEN AVLReverseInorderLoop(t, stack, NONE, Append(out, Pair(t, current)),
                               fuel - 1)
    ELSE IF stack # << >> /\ AVLNodeEq(t, t.left[current], Top(stack))
    THEN AVLReverseInorderLoop(t, Pop(stack), Top(stack),
                               Append(out, Pair(t, current)), fuel - 1)
    ELSE AVLReverseInorderLoop(t, stack, current, out, fuel - 1)

AVLReverseInorderNonRecursive(t, root) ==
    IF root = NONE THEN RaisedStopIteration
    ELSE AVLReverseInorderLoop(t, StackOfRoot(root, t.left[root]), t.right[root],
                               << >>, StepLimit)

\* A slip in _preorder_traverse_non_recursive: the left child is pushed
\* before the right child.
AVLPreorderPushLeftFirst(t, stack, temp) ==
    (IF t.left[temp] # NONE THEN Append(stack, t.left[temp]) ELSE stack)
        \o (IF t.right[temp] # NONE THEN <<t.right[temp]>> ELSE << >>)

\* The stack of _preorder_traverse_non_recursive after temp was popped: its
\* right child is pushed, then its left child.
AVLPreorderPush(t, stack, temp) ==
    (IF t.right[temp] # NONE THEN Append(stack, t.right[temp]) ELSE stack)
        \o (IF t.left[temp] # NONE THEN <<t.left[temp]>> ELSE << >>)

\* _preorder_traverse_non_recursive: the while loop.
RECURSIVE AVLPreorderLoop(_, _, _, _)
AVLPreorderLoop(t, stack, out, fuel) ==
    IF fuel = 0 THEN Diverges(out)
    ELSE IF stack # << >>
    THEN AVLPreorderLoop(t, AVLPreorderPush(t, Pop(stack), Top(stack)),
                         Append(out, Pair(t, Top(stack))), fuel - 1)
    ELSE Exhausted(out)

AVLPreorderNonRecursive(t, root) ==
    IF root = NONE THEN RaisedStopIteration
    ELSE AVLPreorderLoop(t, <<root>>, << >>, StepLimit)

\* _postorder_traverse_non_recursive: the while loop.
RECURSIVE AVLPostorderLoop(_, _, _, _, _)
RECURSIVE AVLPostorderPopped(_, _, _, _, _)
AVLPostorderLoop(t, stack, current, out, fuel) ==
    IF fuel = 0 THEN Diverges(out)
    ELSE IF current # NONE
    THEN IF t.right[current] # NONE
         THEN AVLPostorderLoop(t, Append(Append(stack, t.right[current]), current),
                               t.left[current], out, fuel - 1)
         ELSE IF t.left[current] # NONE
         THEN AVLPostorderLoop(t, Append(stack, current), t.left[current], out,
                               fuel - 1)
         ELSE AVLPostorderLoop(t, stack, t.left[current],
                               Append(out, Pair(t, current)), fuel - 1)
    ELSE IF stack # << >>
    THEN AVLPostorderPopped(t, Pop(stack), Top(stack), out, fuel)
    ELSE Exhausted(out)

AVLPostorderPopped(t, stack, current, out, fuel) ==
    IF t.right[current] = NONE
    THEN AVLPostorderLoop(t, stack, NONE, Append(out, Pair(t, current)), fuel - 1)
    ELSE IF stack = << >>
    THEN Exhausted(Append(out, Pair(t, current)))
    ELSE IF ~AVLNodeEq(t, t.right[current], Top(stack))
    THEN AVLPostorderLoop(t, stack, NONE, Append(out, Pair(t, current)), fuel - 1)
    ELSE AVLPostorderLoop(t, Append(Pop(stack), current), Top(stack), out,
                          fuel - 1)

AVLPostorderNonRecursive(t, root) ==
    IF root = NONE THEN RaisedStopIteration
    ELSE AVLPostorderLoop(t, StackOfRoot(root, t.right[root]), t.left[root],
                          << >>, StepLimit)

\* A slip in levelorder_traverse: the right child is appended before the
\* left child.
AVLLevelorderAppendRightFirst(t, queue, temp) ==
    (IF t.right[temp] # NONE THEN Append(queue, t.right[temp]) ELSE queue)
        \o (IF t.left[temp] # NONE THEN <<t.left[temp]>> ELSE << >>)

\* The queue of levelorder_traverse after temp was popped: its left child is
\* appended, then its right child.
AVLLevelorderAppend(t, queue, temp) ==
    (IF t.left[temp] # NONE THEN Append(queue, t.left[temp]) ELSE queue)
        \o (IF t.right[temp] # NONE THEN <<t.right[temp]>> ELSE << >>)

\* levelorder_traverse: the while loop.  The root of an empty tree is None,
\* and None has no attribute key.
RECURSIVE AVLLevelorderLoop(_, _, _)
AVLLevelorderLoop(t, queue, out) ==
    IF queue = << >> THEN Exhausted(out)
    ELSE IF Head(queue) = NONE THEN [out |-> out, err |-> "AttributeError"]
    ELSE AVLLevelorderLoop(t, AVLLevelorderAppend(t, Tail(queue), Head(queue)),
                           Append(out, Pair(t, Head(queue))))

AVLLevelorderTraverse(t) == AVLLevelorderLoop(t, <<t.root>>, << >>)

\* inorder_traverse, reverse_inorder_traverse, preorder_traverse and
\* postorder_traverse: the generator chosen by the argument recursive.
AVLInorderTraverseWith(t, recursive) ==
    IF recursive THEN Exhausted(AVLInorderFrom(t, t.root))
    ELSE AVLInorderNonRecursive(t, t.root)

AVLReverseInorderTraverseWith(t, recursive) ==
    IF recursive THEN Exhausted(AVLReverseInorderFrom(t, t.root))
    ELSE AVLReverseInorderNonRecursive(t, t.root)

AVLPreorderTraverseWith(t, recursive) ==
    IF recursive THEN Exhausted(AVLPreorderFrom(t, t.root))
    ELSE AVLPreorderNonRecursive(t, t.root)

AVLPostorderTraverseWith(t, recursive) ==
    IF recursive THEN Exhausted(AVLPostorderFrom(t, t.root))
    ELSE AVLPostorderNonRecursive(t, t.root)

(***************************************************************************)
(*                            Red-black tree                               *)
(*                                                                         *)
(* NIL (identifier 0) stands for every Leaf object: the tree's _NIL and    *)
(* the default Leaf objects of the node dataclass.  The code tells Leaf    *)
(* objects apart from nodes by isinstance only, any two Leaf objects       *)
(* compare equal, and a Leaf has a colour but no key, data, left, right or *)
(* parent attribute: reading one of those raises AttributeError.  The      *)
(* colour of a Leaf can be assigned to, so color is defined on NIL too.    *)
(***************************************************************************)
NIL == 0
RED == "RED"
BLACK == "BLACK"

RBEmptyTree ==
    [root |-> NIL,
     key |-> [n \in NodeIds |-> 0],
     data |-> [n \in NodeIds |-> 0],
     left |-> [n \in NodeIds |-> NIL],
     right |-> [n \in NodeIds |-> NIL],
     parent |-> [n \in NodeIds |-> NIL],
     color |-> [n \in {NIL} \cup NodeIds |-> IF n = NIL THEN BLACK ELSE RED],
     err |-> "none"]

\* red_black_tree.Node(key=key, data=data, color=Color.RED)
RBNewNode(t, n, k, v) ==
    [t EXCEPT !.key[n] = k, !.data[n] = v, !.left[n] = NIL, !.right[n] = NIL,
              !.parent[n] = NIL, !.color[n] = RED]

RBCollect(t) ==
    LET live == Live(t)
        keep(f, d) == [n \in NodeIds |-> IF n \in live THEN f[n] ELSE d]
    IN [t EXCEPT !.key = keep(t.key, 0), !.data = keep(t.data, 0),
                 !.left = keep(t.left, NIL), !.right = keep(t.right, NIL),
                 !.parent = keep(t.parent, NIL),
                 !.color = [n \in {NIL} \cup NodeIds |->
                              IF n = NIL \/ n \in live THEN t.color[n] ELSE RED]]

RBFail(t, e) == IF t.err = "none" THEN [t EXCEPT !.err = e] ELSE t

\* a == b on Node or Leaf objects: Leaf() == Leaf() holds, a node never
\* equals a Leaf, two nodes are compared field by field from the key on.
RBNodeEq(t, a, b) ==
    IF a = b THEN TRUE
    ELSE IF a = NIL \/ b = NIL THEN FALSE
    ELSE IF t.key[a] # t.key[b] THEN FALSE
    ELSE /\ t.data[a] = t.data[b]
         /\ t.left[a] = t.left[b]
         /\ t.right[a] = t.right[b]
         /\ t.parent[a] = t.parent[b]
         /\ t.color[a] = t.color[b]

\* The None that search returns, which is not a Leaf object.
RBNone == -1

\* A slip in search: the Leaf the descent ends on is returned, not None.
RECURSIVE RBSearchFromLeaf(_, _, _)
RBSearchFromLeaf(t, k, current) ==
    IF current = NIL THEN current
    ELSE IF k < t.key[current] THEN RBSearchFromLeaf(t, k, t.left[current])
    ELSE IF k > t.key[current] THEN RBSearchFromLeaf(t, k, t.right[current])
    ELSE current

RECURSIVE RBSearchFrom(_, _, _)
RBSearchFrom(t, k, current) ==
    IF current = NIL THEN RBNone
    ELSE IF k < t.key[current] THEN RBSearchFrom(t, k, t.left[current])
    ELSE IF k > t.key[current] THEN RBSearchFrom(t, k, t.right[current])
    ELSE current

RBSearch(t, k) == RBSearchFrom(t, k, t.root)

\* A slip in get_leftmost: the descent to the left is left out.
RBGetLeftmostNoDescent(t, n) == n

RECURSIVE RBGetLeftmost(_, _)
RBGetLeftmost(t, n) ==
    IF t.left[n] # NIL THEN RBGetLeftmost(t, t.left[n]) ELSE n

RECURSIVE RBGetRightmost(_, _)
RBGetRightmost(t, n) ==
    IF t.right[n] # NIL THEN RBGetRightmost(t, t.right[n]) ELSE n

\* The loop of get_predecessor: up while node is the left child of parent.
RECURSIVE RBPredecessorClimb(_, _, _)
RBPredecessorClimb(t, node, parent) ==
    IF parent # NIL /\ RBNodeEq(t, node, t.left[parent])
    THEN RBPredecessorClimb(t, parent, t.parent[parent])
    ELSE parent

RBGetPredecessor(t, node) ==
    IF t.left[node] # NIL THEN RBGetRightmost(t, t.left[node])
    ELSE RBPredecessorClimb(t, node, t.parent[node])

\* The loop of get_successor: up while node is the right child of parent.
RECURSIVE RBSuccessorClimb(_, _, _)
RBSuccessorClimb(t, node, parent) ==
    IF parent # NIL /\ RBNodeEq(t, node, t.right[parent])
    THEN RBSuccessorClimb(t, parent, t.parent[parent])
    ELSE parent

RBGetSuccessor(t, node) ==
    IF t.right[node] # NIL THEN RBGetLeftmost(t, t.right[node])
    ELSE RBSuccessorClimb(t, node, t.parent[node])

\* get_height: 0 for a Leaf and for a node with two Leaf children.
RECURSIVE RBGetHeight(_, _)
RBGetHeight(t, n) ==
    IF n = NIL THEN 0
    ELSE IF t.left[n] = NIL /\ t.right[n] = NIL THEN 0
    ELSE Max(RBGetHeight(t, t.left[n]), RBGetHeight(t, t.right[n])) + 1

\* Hang y where x hung: below x's parent, or as the root.
RBHang(t, x, y) ==
    IF t.parent[x] = NIL THEN [t EXCEPT !.root = y]
    ELSE IF RBNodeEq(t, x, t.left[t.parent[x]])
         THEN [t EXCEPT !.left[t.parent[x]] = y]
         ELSE [t EXCEPT !.right[t.parent[x]] = y]
\* A slip in the rotations and in _transplant: the parent reference of the
\* node that moves up is left as it was.
RBTakeParentStale(t, n, m) == t

\* n.parent = m.parent
RBTakeParent(t, n, m) == [t EXCEPT !.parent[n] = t.parent[m]]

\* _left_rotate, first part: the left subtree of xr becomes the right
\* subtree of x.
RBLeftRotateInner(t, x, xr) ==
    IF t.left[xr] # NIL
    THEN [t EXCEPT !.right[x] = t.left[xr], !.parent[t.left[xr]] = x]
    ELSE [t EXCEPT !.right[x] = t.left[xr]]

\* _left_rotate, second part: xr takes the place of x, and x hangs as the
\* left child of xr.
RBLeftRotateLink(t, x, xr) ==
    [RBHang(RBTakeParent(t, xr, x), x, xr) EXCEPT !.left[xr] = x, !.parent[x] = xr]

RBLeftRotate(t, x) ==
    IF t.err # "none" THEN t
    ELSE IF x = NIL THEN RBFail(t, "AttributeError")
    ELSE IF t.right[x] = NIL THEN RBFail(t, "RuntimeError")
    ELSE RBLeftRotateLink(RBLeftRotateInner(t, x, t.right[x]), x, t.right[x])

\* _right_rotate, first part: the right subtree of xl becomes the left
\* subtree of x.
RBRightRotateInner(t, x, xl) ==
    IF t.right[xl] # NIL
    THEN [t EXCEPT !.left[x] = t.right[xl], !.parent[t.right[xl]] = x]
    ELSE [t EXCEPT !.left[x] = t.right[xl]]

\* _right_rotate, second part: xl takes the place of x, and x hangs as the
\* right child of xl.
RBRightRotateLink(t, x, xl) ==
    [RBHang(RBTakeParent(t, xl, x), x, xl) EXCEPT !.right[xl] = x, !.parent[x] = xl]

RBRightRotate(t, x) ==
    IF t.err # "none" THEN t
    ELSE IF x = NIL THEN RBFail(t, "AttributeError")
    ELSE IF t.left[x] = NIL THEN RBFail(t, "RuntimeError")
    ELSE RBRightRotateLink(RBRightRotateInner(t, x, t.left[x]), x, t.left[x])

\* The rotation towards the left (left = TRUE) or towards the right.
RBRotate(t, x, left) == IF left THEN RBLeftRotate(t, x) ELSE RBRightRotate(t, x)

RECURSIVE RBInsertFixupLoop(_, _)

\* Cases 3 and 6 of _insert_fixup: fixing_node is an outer grandchild.  Its
\* parent turns black, its grandparent turns red and is rotated; the loop
\* goes on with fixing_node.
RBInsertFixupOuter(t, fixing_node, left) ==
    IF t.err # "none" THEN t
    ELSE IF t.parent[fixing_node] = NIL
    THEN RBFail([t EXCEPT !.color[NIL] = BLACK], "AttributeError")
    ELSE RBInsertFixupLoop(
             RBRotate([[t EXCEPT !.color[t.parent[fixing_node]] = BLACK]
                          EXCEPT !.color[t.parent[t.parent[fixing_node]]] = RED],
                      t.parent[t.parent[fixing_node]], ~left),
             fixing_node)

\* Cases 2-3 (left = TRUE) and 5-6 of _insert_fixup: the parent's sibling is
\* black.  An inner grandchild is first made an outer one by a rotation of
\* its parent, which becomes fixing_node.
RBInsertFixupBlackUncle(t, fixing_node, left) ==
    IF RBNodeEq(t, fixing_node,
                IF left THEN t.right[t.parent[fixing_node]]
                        ELSE t.left[t.parent[fixing_node]])
    THEN RBInsertFixupOuter(RBRotate(t, t.parent[fixing_node], left),
                            t.parent[fixing_node], left)
    ELSE RBInsertFixupOuter(t, fixing_node, left)

\* The body of the while loop of _insert_fixup: p is the parent of
\* fixing_node and pp its grandparent.
RBInsertFixupBody(t, fixing_node, p, pp, left) ==
    IF t.color[IF left THEN t.right[pp] ELSE t.left[pp]] = RED
    THEN RBInsertFixupLoop(
             [t EXCEPT !.color[p] = BLACK,
                       !.color[IF left THEN t.right[pp] ELSE t.left[pp]] = BLACK,
                       !.color[pp] = RED],
             pp)
    ELSE RBInsertFixupBlackUncle(t, fixing_node, left)

\* The while loop of _insert_fixup.
RBInsertFixupLoop(t, fixing_node) ==
    IF t.err # "none" THEN t
    ELSE IF fixing_node = NIL THEN RBFail(t, "AttributeError")
    ELSE IF t.color[t.parent[fixing_node]] # RED THEN t
    ELSE IF t.rounds >= StepLimit THEN NoReturn(t)
    ELSE IF t.parent[fixing_node] = NIL \/ t.parent[t.parent[fixing_node]] = NIL
    THEN RBFail(t, "AttributeError")
    ELSE RBInsertFixupBody(Round(t), fixing_node, t.parent[fixing_node],
                           t.parent[t.parent[fixing_node]],
                           RBNodeEq(t, t.parent[fixing_node],
                                    t.left[t.parent[t.parent[fixing_node]]]))

\* A slip in _insert_fixup: the root is not forced black after the loop.
RBInsertFixupNoRootBlack(t, fixing_node) == RBInsertFixupLoop(t, fixing_node)

\* Another slip in _insert_fixup: the loop is left out.
RBInsertFixupNoLoop(t, fixing_node) == [t EXCEPT !.color[t.root] = BLACK]

\* self.root.color = Color.BLACK, when the loop has not raised.
RBRootBlack(t) ==
    IF t.err # "none" THEN t ELSE [t EXCEPT !.color[t.root] = BLACK]

RBInsertFixup(t, fixing_node) == RBRootBlack(RBInsertFixupLoop(t, fixing_node))

\* The descent of insert: the node the new one hangs from, or the node that
\* already holds the key.
RECURSIVE RBInsertDescend(_, _, _, _)
RBInsertDescend(t, k, current, parent) ==
    IF current = NIL THEN [parent |-> parent, dup |-> FALSE]
    ELSE IF k < t.key[current] THEN RBInsertDescend(t, k, t.left[current], current)
    ELSE IF k > t.key[current] THEN RBInsertDescend(t, k, t.right[current], current)
    ELSE [parent |-> current, dup |-> TRUE]

\* insert: the new node becomes the left or the right child of parent.
RBInsertHang(t, k, parent, new_node) ==
    IF k < t.key[parent] THEN [t EXCEPT !.left[parent] = new_node]
    ELSE [t EXCEPT !.right[parent] = new_node]

\* The rest of insert once the descent has ended on a Leaf below parent.
RBInsertAttach(t, k, v, parent, new_node) ==
    IF parent = NIL
    THEN [RBNewNode(t, new_node, k, v) EXCEPT
              !.parent[new_node] = parent, !.color[new_node] = BLACK, !.root = new_node]
    ELSE RBInsertFixup(
             RBInsertHang([RBNewNode(t, new_node, k, v) EXCEPT !.parent[new_node] = parent],
                          k, parent, new_node),
             new_node)

\* A slip in insert: a key that is present has its data replaced.
RBInsertUpsert(t0, k, v) ==
    LET t == [t0 EXCEPT !.err = "none"]
        d == RBInsertDescend(t, k, t.root, NIL)
    IN IF d.dup THEN [t EXCEPT !.data[d.parent] = v]
       ELSE RBInsertAttach(t, k, v, d.parent, FreeId(t, k))

RBInsert(t0, k, v) ==
    LET t == [t0 EXCEPT !.err = "none"]
        d == RBInsertDescend(t, k, t.root, NIL)
    IN IF d.dup THEN RBFail(t, "DuplicateKeyError")
       ELSE RBInsertAttach(t, k, v, d.parent, FreeId(t, k))

RBTransplant(t, deleting_node, replacing_node) ==
    IF replacing_node # NIL
    THEN RBTakeParent(RBHang(t, deleting_node, replacing_node),
                      replacing_node, deleting_node)
    ELSE RBHang(t, deleting_node, replacing_node)

\* Cases 4 and 8 of _delete_fixup: the sibling takes the colour of the
\* parent, the parent and the sibling's far child turn black, the parent is
\* rotated.
RBDeleteFixupFarRed(t, p, sibling, left) ==
    RBRotate([[[t EXCEPT !.color[sibling] = t.color[p]]
                  EXCEPT !.color[p] = BLACK]
                  EXCEPT !.color[IF left THEN t.right[sibling]
                                         ELSE t.left[sibling]] = BLACK],
             p, left)

\* fixing_node.parent, read after the rotation of case 3 (7).
RBDeleteFixupFarRedAt(t, fixing_node, sibling, left) ==
    IF t.err # "none" THEN t
    ELSE RBDeleteFixupFarRed(t, t.parent[fixing_node], sibling, left)

\* Cases 3-4 (left = TRUE) and 7-8 of _delete_fixup: the sibling is black and
\* has a red child.  The variable sibling is not re-read after the rotation
\* of case 3 (7).
RBDeleteFixupRedNephew(t, fixing_node, sibling, left) ==
    IF t.color[IF left THEN t.right[sibling] ELSE t.left[sibling]] = BLACK
    THEN RBDeleteFixupFarRedAt(
             RBRotate([t EXCEPT !.color[IF left THEN t.left[sibling]
                                                ELSE t.right[sibling]] = BLACK,
                                !.color[sibling] = RED],
                      sibling, ~left),
             fixing_node, sibling, left)
    ELSE RBDeleteFixupFarRedAt(t, fixing_node, sibling, left)

RECURSIVE RBDeleteFixup(_, _)

\* fixing_node = self.root, which ends the loop.
RBDeleteFixupAtRoot(t) == RBDeleteFixup(t, t.root)

\* The body of the while loop of _delete_fixup: p is the parent of
\* fixing_node and sibling the other child of p.
RBDeleteFixupBody(t, fixing_node, p, sibling, left) ==
    IF sibling = NIL
    THEN [t EXCEPT !.color[fixing_node] = BLACK]
    ELSE IF t.color[sibling] = RED
    THEN RBDeleteFixup(
             RBRotate([t EXCEPT !.color[sibling] = BLACK, !.color[p] = RED], p, left),
             fixing_node)
    ELSE IF /\ t.color[sibling] = BLACK
            /\ t.color[t.left[sibling]] = BLACK
            /\ t.color[t.right[sibling]] = BLACK
    THEN RBDeleteFixup([t EXCEPT !.color[sibling] = RED], p)
    ELSE RBDeleteFixupAtRoot(RBDeleteFixupRedNephew(t, fixing_node, sibling, left))

\* The sibling of fixing_node below p.
RBDeleteFixupSide(t, fixing_node, p, left) ==
    RBDeleteFixupBody(t, fixing_node, p,
                      IF left THEN t.right[p] ELSE t.left[p], left)

\* The while loop of _delete_fixup and the assignment that follows it.
RBDeleteFixup(t, fixing_node) ==
    IF t.err # "none" THEN t
    ELSE IF ~(fixing_node # t.root /\ t.color[fixing_node] = BLACK)
    THEN [t EXCEPT !.color[fixing_node] = BLACK]
    ELSE IF t.rounds >= StepLimit THEN NoReturn(t)
    ELSE IF fixing_node = NIL \/ t.parent[fixing_node] = NIL
    THEN RBFail(t, "AttributeError")
    ELSE RBDeleteFixupSide(Round(t), fixing_node, t.parent[fixing_node],
                           RBNodeEq(t, fixing_node, t.left[t.parent[fixing_node]]))

\* if original_color == Color.BLACK and isinstance(fixing_node, Node):
\*     self._delete_fixup(fixing_node)
\* The guard in front of every call of _delete_fixup in delete.
RBDeleteFixupGuard(original_color, fixing_node) ==
    original_color = BLACK /\ fixing_node # NIL

RBDeleteFixupIfBlack(t, original_color, fixing_node) ==
    IF RBDeleteFixupGuard(original_color, fixing_node)
    THEN RBDeleteFixup(t, fixing_node)
    ELSE t

\* Cases 1 and 2 of delete: the node has at most one child, which replaces it.
RBDeleteAtMostOneChild(t, deleting_node, replacing_node) ==
    RBDeleteFixupIfBlack(RBTransplant(t, deleting_node, replacing_node),
                         t.color[deleting_node], replacing_node)

\* Case 3c step 2: the successor takes the right subtree of the deleted
\* node.
RBAdoptRight(t, deleting_node, replacing_node) ==
    [t EXCEPT !.right[replacing_node] = t.right[deleting_node],
              !.parent[t.right[deleting_node]] = replacing_node]

\* Case 3 of delete, first part: the successor is taken out of the right
\* subtree and becomes its root, unless it is the right child itself.
RBDetachSuccessor(t, deleting_node, replacing_node) ==
    IF RBNodeEq(t, t.parent[replacing_node], deleting_node)
    THEN IF t.right[replacing_node] # NIL
         THEN [t EXCEPT !.parent[t.right[replacing_node]] = replacing_node]
         ELSE t
    ELSE RBAdoptRight(RBTransplant(t, replacing_node, t.right[replacing_node]),
                      deleting_node, replacing_node)

\* Case 3 of delete, second part: the successor takes the left subtree and
\* the colour of the deleted node.
RBAdoptLeft(t, deleting_node, replacing_node) ==
    [t EXCEPT !.left[replacing_node] = t.left[deleting_node],
              !.parent[t.left[deleting_node]] = replacing_node,
              !.color[replacing_node] = t.color[deleting_node]]

\* Case 3 of delete: the in-order successor replaces the node.
RBDeleteTwoChildren(t, deleting_node, replacing_node) ==
    RBDeleteFixupIfBlack(
        RBAdoptLeft(RBTransplant(RBDetachSuccessor(t, deleting_node, replacing_node),
                                 deleting_node, replacing_node),
                    deleting_node, replacing_node),
        t.color[replacing_node], t.right[replacing_node])

\* delete once search has returned deleting_node.
RBDeleteNode(t, deleting_node) ==
    IF deleting_node = RBNone \/ deleting_node = NIL THEN t
    ELSE IF t.left[deleting_node] = NIL
    THEN RBDeleteAtMostOneChild(t, deleting_node, t.right[deleting_node])
    ELSE IF t.right[deleting_node] = NIL
    THEN RBDeleteAtMostOneChild(t, deleting_node, t.left[deleting_node])
    ELSE RBDeleteTwoChildren(t, deleting_node,
                             RBGetLeftmost(t, t.right[deleting_node]))

RBDelete(t0, k) == RBDeleteNode([t0 EXCEPT !.err = "none"], RBSearch(t0, k))

\* original_color in delete of deleting_node: the colour of the node that
\* leaves its place, which is the in-order successor when deleting_node has
\* two children.
RBDeleteOriginalColor(t, deleting_node) ==
    IF t.left[deleting_node] = NIL \/ t.right[deleting_node] = NIL
    THEN t.color[deleting_node]
    ELSE t.color[RBGetLeftmost(t, t.right[deleting_node])]

\* The node or Leaf that delete of deleting_node would hand to _delete_fixup:
\* the one that takes the place left.
RBDeleteFixingNode(t, deleting_node) ==
    IF t.left[deleting_node] = NIL THEN t.right[deleting_node]
    ELSE IF t.right[deleting_node] = NIL THEN t.left[deleting_node]
    ELSE t.right[RBGetLeftmost(t, t.right[deleting_node])]

\* BinaryTree.empty: the root is not a binary_tree.Node.
RBIsEmpty(t) == t.root = NIL

\* RBTree._inorder_traverse: the (key, data) pairs of the nodes, no Leaf.
RECURSIVE RBInorderFrom(_, _)
RBInorderFrom(t, n) ==
    IF n # NIL
    THEN RBInorderFrom(t, t.left[n]) \o << <<t.key[n], t.data[n]>> >>
            \o RBInorderFrom(t, t.right[n])
    ELSE << >>

RBInorderTraverse(t) == RBInorderFrom(t, t.root)

\* A slip in RBTree._preorder_traverse: the right subtree is yielded before
\* the left subtree.
RECURSIVE RBPreorderFromRightFirst(_, _)
RBPreorderFromRightFirst(t, n) ==
    IF n # NIL
    THEN << <<t.key[n], t.data[n]>> >> \o RBPreorderFromRightFirst(t, t.right[n])
            \o RBPreorderFromRightFirst(t, t.left[n])
    ELSE << >>

RECURSIVE RBPreorderFrom(_, _)
RBPreorderFrom(t, n) ==
    IF n # NIL
    THEN << <<t.key[n], t.data[n]>> >> \o RBPreorderFrom(t, t.left[n])
            \o RBPreorderFrom(t, t.right[n])
    ELSE << >>

RBPreorderTraverse(t) == RBPreorderFrom(t, t.root)

RECURSIVE RBPostorderFrom(_, _)
RBPostorderFrom(t, n) ==
    IF n # NIL
    THEN RBPostorderFrom(t, t.left[n]) \o RBPostorderFrom(t, t.right[n])
            \o << <<t.key[n], t.data[n]>> >>
    ELSE << >>

RBPostorderTraverse(t) == RBPostorderFrom(t, t.root)

(***************************************************************************)
(*          forest/binary_trees/traversal.py on a red-black tree           *)
(*                                                                         *)
(* The module tests a child with `if node:`, and a Node or a Leaf object   *)
(* is never false: the test succeeds for a Leaf as well.  The branches     *)
(* taken when the test fails are never taken on a red-black tree, and the  *)
(* first read of key, data, left or right on a Leaf raises AttributeError. *)
(* The pairs yielded before the exception stay yielded.                    *)
(***************************************************************************)
AttributeError(out) == [out |-> out, err |-> "AttributeError"]

\* Generator r, then generator s when r was exhausted without an exception.
Then(r, s) ==
    IF r.err # "none" THEN r ELSE [out |-> r.out \o s.out, err |-> s.err]

RECURSIVE RBTraversalInorderFrom(_, _)
RBTraversalInorderFrom(t, node) ==
    IF node = NIL THEN AttributeError(<< >>)
    ELSE Then(Then(RBTraversalInorderFrom(t, t.left[node]),
                   Exhausted(<< Pair(t, node) >>)),
              RBTraversalInorderFrom(t, t.right[node]))

RECURSIVE RBTraversalReverseInorderFrom(_, _)
RBTraversalReverseInorderFrom(t, node) ==
    IF node = NIL THEN AttributeError(<< >>)
    ELSE Then(Then(RBTraversalReverseInorderFrom(t, t.right[node]),
                   Exhausted(<< Pair(t, node) >>)),
              RBTraversalReverseInorderFrom(t, t.left[node]))

RECURSIVE RBTraversalPreorderFrom(_, _)
RBTraversalPreorderFrom(t, node) ==
    IF node = NIL THEN AttributeError(<< >>)
    ELSE Then(Then(Exhausted(<< Pair(t, node) >>),
                   RBTraversalPreorderFrom(t, t.left[node])),
              RBTraversalPreorderFrom(t, t.right[node]))

RECURSIVE RBTraversalPostorderFrom(_, _)
RBTraversalPostorderFrom(t, node) ==
    IF node = NIL THEN AttributeError(<< >>)
    ELSE Then(Then(RBTraversalPostorderFrom(t, t.left[node]),
                   RBTraversalPostorderFrom(t, t.right[node])),
              Exhausted(<< Pair(t, node) >>))

\* The loop of _inorder_traverse_non_recursive and of
\* _postorder_traverse_non_recursive as far as a red-black tree takes it:
\* current and current.right always pass the test, so each round pushes
\* current.right and current and moves to current.left, until current is a
\* Leaf.
RECURSIVE RBTraversalLeftLoop(_, _, _, _, _)
RBTraversalLeftLoop(t, stack, current, out, fuel) ==
    IF fuel = 0 THEN Diverges(out)
    ELSE IF current = NIL THEN AttributeError(out)
    ELSE RBTraversalLeftLoop(t, Append(Append(stack, t.right[current]), current),
                             t.left[current], out, fuel - 1)

RBTraversalInorderNonRecursive(t, root) ==
    IF root = NIL THEN AttributeError(<< >>)
    ELSE RBTraversalLeftLoop(t, <<t.right[root], root>>, t.left[root], << >>,
                             StepLimit)

RBTraversalPostorderNonRecursive(t, root) ==
    IF root = NIL THEN AttributeError(<< >>)
    ELSE RBTraversalLeftLoop(t, <<t.right[root], root>>, t.left[root], << >>,
                             StepLimit)

\* The loop of _reverse_inorder_traverse_non_recursive, likewise to the
\* right.
RECURSIVE RBTraversalRightLoop(_, _, _, _, _)
RBTraversalRightLoop(t, stack, current, out, fuel) ==
    IF fuel = 0 THEN Diverges(out)
    ELSE IF current = NIL THEN AttributeError(out)
    ELSE RBTraversalRightLoop(t, Append(Append(stack, t.left[current]), current),
                              t.right[current], out, fuel - 1)

RBTraversalReverseInorderNonRecursive(t, root) ==
    IF root = NIL THEN AttributeError(<< >>)
    ELSE RBTraversalRightLoop(t, <<t.left[root], root>>, t.right[root], << >>,
                              StepLimit)

\* The loop of _preorder_traverse_non_recursive: both children of the node
\* popped are pushed, Leaf objects included.
RECURSIVE RBTraversalPreorderLoop(_, _, _, _)
RBTraversalPreorderLoop(t, stack, out, fuel) ==
    IF fuel = 0 THEN Diverges(out)
    ELSE IF stack = << >> THEN Exhausted(out)
    ELSE IF Top(stack) = NIL THEN AttributeError(out)
    ELSE RBTraversalPreorderLoop(
             t, Pop(stack) \o <<t.right[Top(stack)], t.left[Top(stack)]>>,
             Append(out, Pair(t, Top(stack))), fuel - 1)

RBTraversalPreorderNonRecursive(t, root) ==
    RBTraversalPreorderLoop(t, <<root>>, << >>, StepLimit)

\* The loop of levelorder_traverse: both children of the node popped are
\* appended, Leaf objects included.
RECURSIVE RBTraversalLevelorderLoop(_, _, _, _)
RBTraversalLevelorderLoop(t, queue, out, fuel) ==
    IF fuel = 0 THEN Diverges(out)
    ELSE IF queue = << >> THEN Exhausted(out)
    ELSE IF Head(queue) = NIL THEN AttributeError(out)
    ELSE RBTraversalLevelorderLoop(
             t, Tail(queue) \o <<t.left[Head(queue)], t.right[Head(queue)]>>,
             Append(out, Pair(t, Head(queue))), fuel - 1)

RBTraversalLevelorderTraverse(t) ==
    RBTraversalLevelorderLoop(t, <<t.root>>, << >>, StepLimit)

\* inorder_traverse, reverse_inorder_traverse, preorder_traverse and
\* postorder_traverse called with a red-black tree.
RBTraversalInorderTraverse(t, recursive) ==
    IF recursive THEN RBTraversalInorderFrom(t, t.root)
    ELSE RBTraversalInorderNonRecursive(t, t.root)

RBTraversalReverseInorderTraverse(t, recursive) ==
    IF recursive THEN RBTraversalReverseInorderFrom(t, t.root)
    ELSE RBTraversalReverseInorderNonRecursive(t, t.root)

RBTraversalPreorderTraverse(t, recursive) ==
    IF recursive THEN RBTraversalPreorderFrom(t, t.root)
    ELSE RBTraversalPreorderNonRecursive(t, t.root)

RBTraversalPostorderTraverse(t, recursive) ==
    IF recursive THEN RBTraversalPostorderFrom(t, t.root)
    ELSE RBTraversalPostorderNonRecursive(t, t.root)

(***************************************************************************)
(*                     The client of the two maps                          *)
(*                                                                         *)
(* One AVLTree and one RBTree receive the same calls, as the comparison    *)
(* script examples/avlt_vs_rbt_2.py does.  avlErr and rbErr hold the       *)
(* exception the last call raised ("none" when it returned).  contents is  *)
(* the map the calls describe: the value inserted with each key that was   *)
(* inserted and not deleted since, a function on the keys present;         *)
(* lastCall names the last call, its key, and whether the key was present  *)
(* when the call was made.  rotated lists the rotations the last call     *)
(* made in the AVL tree, which its rotation counter counts, each with the  *)
(* key of the node rotated down and the side; rounds counts the rounds the *)
(* fixup loops of the last call made in each tree.                         *)
(***************************************************************************)
VARIABLES avl, rb, avlErr, rbErr, contents, lastCall, result, pc, rotated, rounds

vars == <<avl, rb, avlErr, rbErr, contents, lastCall, result, pc, rotated, rounds>>

\* What insert and delete return.
NoResult == [avl |-> NONE, rb |-> NONE]

\* The tree object without the exception slot, the rotations and the loop
\* rounds of the call, and with them at the start of a call.
Fields(t) == [f \in DOMAIN t \ {"err", "rotated", "rounds"} |-> t[f]]
Call(t) == [err |-> "none", rotated |-> << >>, rounds |-> 0] @@ t

Init ==
    /\ avl = Fields(AVLEmptyTree)
    /\ rb = Fields(RBEmptyTree)
    /\ avlErr = "none"
    /\ rbErr = "none"
    /\ contents = [k \in {} |-> 0]
    /\ lastCall = [op |-> "none", key |-> 0, present |-> FALSE]
    /\ result = NoResult
    /\ pc = 0
    /\ rotated = << >>
    /\ rounds = [avl |-> 0, rb |-> 0]

\* The end of a call on both trees: a and r are the tree objects it leaves,
\* each with the exception it raised.
Return(a, r) ==
    /\ avl' = Fields(a)
    /\ avlErr' = a.err
    /\ rb' = Fields(r)
    /\ rbErr' = r.err
    /\ rotated' = a.rotated
    /\ rounds' = [avl |-> a.rounds, rb |-> r.rounds]

Insert(k, v) ==
    /\ avl.inversion_count < MaxInversions
    /\ Return(AVLCollect(AVLInsert(Call(avl), k, v)),
              RBCollect(RBInsert(Call(rb), k, v)))
    /\ contents' = IF k \in DOMAIN contents THEN contents
                   ELSE [x \in DOMAIN contents \cup {k} |->
                            IF x = k THEN v ELSE contents[x]]
    /\ lastCall' = [op |-> "insert", key |-> k, present |-> k \in DOMAIN contents]
    /\ result' = NoResult
    /\ UNCHANGED pc

Delete(k) ==
    /\ Return(AVLCollect(AVLDelete(Call(avl), k)),
              RBCollect(RBDelete(Call(rb), k)))
    /\ contents' = [x \in DOMAIN contents \ {k} |-> contents[x]]
    /\ lastCall' = [op |-> "delete", key |-> k, present |-> k \in DOMAIN contents]
    /\ result' = NoResult
    /\ UNCHANGED pc

Next ==
    \/ \E k \in Keys, v \in Data : Insert(k, v)
    \/ \E k \in Keys : Delete(k)

Spec == Init /\ [][Next]_vars

(***************************************************************************)
(*                 Derived notions used by the properties                  *)
(***************************************************************************)
\* The nodes of the subtree rooted at n, following left and right only.
RECURSIVE Subtree(_, _)
Subtree(t, n) ==
    IF n = 0 THEN {}
    ELSE {n} \cup Subtree(t, t.left[n]) \cup Subtree(t, t.right[n])

TreeNodes(t) == Subtree(t, t.root)

\* Edges on the longest downward path; -1 for an absent subtree.
RECURSIVE TrueHeight(_, _)
TrueHeight(t, n) ==
    IF n = 0 THEN -1
    ELSE 1 + Max(TrueHeight(t, t.left[n]), TrueHeight(t, t.right[n]))

Abs(x) == IF x < 0 THEN -x ELSE x

\* The numbers of black nodes met on the paths from n down to a Leaf, n
\* excluded and the Leaf included.
RECURSIVE BlackCounts(_, _)
BlackCounts(t, n) ==
    IF n = NIL THEN {0}
    ELSE LET below(c) == { x + (IF t.color[c] = BLACK THEN 1 ELSE 0) :
                             x \in BlackCounts(t, c) }
         IN below(t.left[n]) \cup below(t.right[n])

\* The pairs of contents in ascending key order.
RECURSIVE ContentsFrom(_)
ContentsFrom(k) ==
    IF \A x \in DOMAIN contents : x < k THEN << >>
    ELSE (IF k \in DOMAIN contents THEN << <<k, contents[k]>> >> ELSE << >>)
            \o ContentsFrom(k + 1)

ContentsPairs == ContentsFrom(1)

Size == Cardinality(DOMAIN contents)

(***************************************************************************)
(*                               Properties                                *)
(***************************************************************************)

\* C1: after any sequence of insert and delete calls, the left and right
\* subtrees of every node of the AVL tree differ in height by at most one,
\* an absent subtree having height -1; this holds of the heights the nodes
\* store (the balance factor the code computes) and of the true heights.
C1_AVLBalanced ==
    \A n \in TreeNodes(avl) :
        /\ AVLGetBalanceFactor(avl, n) \in {-1, 0, 1}
        /\ TrueHeight(avl, avl.left[n]) - TrueHeight(avl, avl.right[n]) \in {-1, 0, 1}

\* A delete has returned and the tree holds at least three keys, the root
\* with a left child although no insert ever descended to the left: a
\* rotation has put it there.
C1_Witness ==
    /\ lastCall.op = "delete"
    /\ Size >= 3
    /\ avl.inversion_count = 0
    /\ avl.root # NONE
    /\ avl.left[avl.root] # NONE

\* C2: after any sequence of insert and delete calls, all the paths from a
\* node of the red-black tree (the root included) down to a Leaf hold the
\* same number of black nodes.
C2_EqualBlackHeight ==
    \A n \in TreeNodes(rb) : Cardinality(BlackCounts(rb, n)) = 1

\* C3: after any sequence of insert and delete calls, no red node of the
\* red-black tree has a red child.
C3_NoRedRed ==
    \A n \in TreeNodes(rb) :
        rb.color[n] = RED =>
            /\ rb.color[rb.left[n]] = BLACK
            /\ rb.color[rb.right[n]] = BLACK

\* A red node hangs below a black node that is not the root: the insert
\* fixup has recoloured and moved up.
C3_Witness ==
    \E n \in TreeNodes(rb) :
        /\ rb.color[n] = RED
        /\ rb.parent[n] # NIL
        /\ rb.parent[n] # rb.root
        /\ rb.color[rb.parent[n]] = BLACK

\* C4: after every insert or delete, the root of a non-empty red-black tree
\* is black, and the Leaf colour is black.
C4_RootAndLeavesBlack ==
    /\ rb.color[NIL] = BLACK
    /\ rb.root # NIL => rb.color[rb.root] = BLACK

\* An insert has returned and both children of the root are black nodes:
\* the recolouring reached the root, which was then forced black.
C4_Witness ==
    /\ lastCall.op = "insert"
    /\ rbErr = "none"
    /\ rb.root # NIL
    /\ rb.left[rb.root] # NIL /\ rb.color[rb.left[rb.root]] = BLACK
    /\ rb.right[rb.root] # NIL /\ rb.color[rb.right[rb.root]] = BLACK
    /\ rb.color[rb.root] = BLACK

\* C5: the in-order traversal of the AVL tree yields exactly the (key, data)
\* pairs inserted and not deleted since, each once, in ascending key order.
C5_AVLInorderIsContents == AVLInorderTraverse(avl) = ContentsPairs

\* A delete has returned, keys remain, and a node holds a key it was not
\* created with: a node with two children was deleted.
C5_Witness ==
    /\ lastCall.op = "delete"
    /\ Size >= 2
    /\ \E n \in TreeNodes(avl) : avl.key[n] # n

\* C6: the in-order traversal of the red-black tree yields exactly the
\* (key, data) pairs inserted and not deleted since, each once, in ascending
\* key order, and nothing for a Leaf.
C6_RBInorderIsContents ==
    /\ RBInorderTraverse(rb) = ContentsPairs
    /\ \A i \in 1..Len(RBInorderTraverse(rb)) : RBInorderTraverse(rb)[i][1] \in Keys

\* A delete has removed a key and left a root with two children.
C6_Witness ==
    /\ lastCall.op = "delete"
    /\ lastCall.key \notin DOMAIN contents
    /\ Size >= 3
    /\ rb.root # NIL
    /\ rb.left[rb.root] # NIL
    /\ rb.right[rb.root] # NIL

\* C7: after every step of the same sequence of calls, the in-order
\* sequences of (key, data) pairs of the AVL tree and of the red-black tree
\* are identical.
C7_EnginesAgree == AVLInorderTraverse(avl) = RBInorderTraverse(rb)

\* The two trees hold the same three or more keys under different roots.
C7_Witness ==
    /\ Size >= 3
    /\ avl.root # NONE
    /\ rb.root # NIL
    /\ avl.key[avl.root] # rb.key[rb.root]

\* C8: when every key that was inserted has been deleted, both trees are
\* empty.
C8_RoundTripEmpty == Size = 0 => AVLIsEmpty(avl) /\ RBIsEmpty(rb)

\* The last key was deleted from trees that held two keys or more at once.
C8_Witness ==
    /\ lastCall.op = "delete"
    /\ Size = 0
    /\ avl.inversion_count >= 1
    /\ AVLIsEmpty(avl)
    /\ RBIsEmpty(rb)

\* C9: an insert into the AVL tree with a key that is present raises
\* DuplicateKeyError and leaves the tree object and every node unchanged.
C9_AVLDuplicateInsertNoChange ==
    [][(lastCall'.op = "insert" /\ lastCall'.key \in DOMAIN contents)
          => (avlErr' = "DuplicateKeyError" /\ avl' = avl)]_vars

\* C10: an insert into the red-black tree with a key that is present raises
\* DuplicateKeyError and leaves the root and every node unchanged.
C10_RBDuplicateInsertNoChange ==
    [][(lastCall'.op = "insert" /\ lastCall'.key \in DOMAIN contents)
          => (rbErr' = "DuplicateKeyError" /\ rb' = rb)]_vars

\* An insert of a key held below the root has raised DuplicateKeyError.
C10_Witness ==
    /\ lastCall.op = "insert"
    /\ rbErr = "DuplicateKeyError"
    /\ lastCall.key \in DOMAIN contents
    /\ rb.root # NIL
    /\ rb.key[rb.root] # lastCall.key


\* C11: a delete with a key that is not in the tree, an empty tree included,
\* raises nothing and leaves both trees unchanged: the root, every link, key
\* and data, the heights and sizes, the colours.
C11_DeleteAbsentNoChange ==
    [][(lastCall'.op = "delete" /\ ~lastCall'.present)
          => (/\ avlErr' = "none" /\ avl' = avl
              /\ rbErr' = "none" /\ rb' = rb)]_vars

\* A delete of a key that was absent has returned on trees of three keys.
C11_Witness ==
    /\ lastCall.op = "delete"
    /\ ~lastCall.present
    /\ Size >= 3
    /\ avlErr = "none"
    /\ rbErr = "none"

\* C12: in either tree, search(k) returns a node that holds k and the data
\* inserted with k exactly when k was inserted and not deleted since;
\* otherwise it returns None, which is not a Leaf.
C12_SearchCorrect ==
    \A k \in Keys :
        IF k \in DOMAIN contents
        THEN /\ AVLSearch(avl, k) # NONE
             /\ avl.key[AVLSearch(avl, k)] = k
             /\ avl.data[AVLSearch(avl, k)] = contents[k]
             /\ RBSearch(rb, k) \in NodeIds
             /\ rb.key[RBSearch(rb, k)] = k
             /\ rb.data[RBSearch(rb, k)] = contents[k]
        ELSE /\ AVLSearch(avl, k) = NONE
             /\ RBSearch(rb, k) = RBNone

\* After a delete, a key is missing and another is found below the root of
\* both trees.
C12_Witness ==
    /\ lastCall.op = "delete"
    /\ lastCall.present
    /\ Size >= 3
    /\ RBSearch(rb, lastCall.key) = RBNone
    /\ \E k \in DOMAIN contents :
          /\ AVLSearch(avl, k) # avl.root
          /\ RBSearch(rb, k) # rb.root

\* The keys present above k, the keys present below k, and the least and the
\* greatest key of a non-empty set.
KeysAbove(k) == { x \in DOMAIN contents : x > k }
KeysBelow(k) == { x \in DOMAIN contents : x < k }
Least(S) == CHOOSE x \in S : \A y \in S : x <= y
Greatest(S) == CHOOSE x \in S : \A y \in S : x >= y

\* C14: for every node n of either tree, get_successor(n) is the node that
\* holds the least key above n.key, or nothing (None in the AVL tree, a Leaf
\* in the red-black tree) when n holds the greatest key; get_predecessor(n)
\* is the node that holds the greatest key below n.key, or nothing when n
\* holds the least key.
C14_SuccessorPredecessor ==
    /\ \A n \in TreeNodes(avl) :
          /\ IF KeysAbove(avl.key[n]) = {}
             THEN AVLGetSuccessor(avl, n) = NONE
             ELSE /\ AVLGetSuccessor(avl, n) \in TreeNodes(avl)
                  /\ avl.key[AVLGetSuccessor(avl, n)] = Least(KeysAbove(avl.key[n]))
          /\ IF KeysBelow(avl.key[n]) = {}
             THEN AVLGetPredecessor(avl, n) = NONE
             ELSE /\ AVLGetPredecessor(avl, n) \in TreeNodes(avl)
                  /\ avl.key[AVLGetPredecessor(avl, n)] = Greatest(KeysBelow(avl.key[n]))
    /\ \A n \in TreeNodes(rb) :
          /\ IF KeysAbove(rb.key[n]) = {}
             THEN RBGetSuccessor(rb, n) = NIL
             ELSE /\ RBGetSuccessor(rb, n) \in TreeNodes(rb)
                  /\ rb.key[RBGetSuccessor(rb, n)] = Least(KeysAbove(rb.key[n]))
          /\ IF KeysBelow(rb.key[n]) = {}
             THEN RBGetPredecessor(rb, n) = NIL
             ELSE /\ RBGetPredecessor(rb, n) \in TreeNodes(rb)
                  /\ rb.key[RBGetPredecessor(rb, n)] = Greatest(KeysBelow(rb.key[n]))

\* In both trees a node without a right child has a successor that is not
\* its parent: the climb has gone up more than one level.
C14_Witness ==
    /\ \E n \in TreeNodes(avl) :
          /\ avl.right[n] = NONE
          /\ AVLGetSuccessor(avl, n) # NONE
          /\ AVLGetSuccessor(avl, n) # avl.parent[n]
    /\ \E n \in TreeNodes(rb) :
          /\ rb.right[n] = NIL
          /\ RBGetSuccessor(rb, n) # NIL
          /\ RBGetSuccessor(rb, n) # rb.parent[n]

\* The keys held in the subtree rooted at n.
SubtreeKeys(t, n) == { t.key[m] : m \in Subtree(t, n) }

\* C15: for every node n of either tree, get_leftmost(n) is a node of the
\* subtree rooted at n that holds its least key and get_rightmost(n) one that
\* holds its greatest key; from the root they give the least and the
\* greatest key of the whole map.
C15_LeftmostRightmost ==
    /\ \A n \in TreeNodes(avl) :
          /\ AVLGetLeftmost(avl, n) \in Subtree(avl, n)
          /\ avl.key[AVLGetLeftmost(avl, n)] = Least(SubtreeKeys(avl, n))
          /\ AVLGetRightmost(avl, n) \in Subtree(avl, n)
          /\ avl.key[AVLGetRightmost(avl, n)] = Greatest(SubtreeKeys(avl, n))
    /\ \A n \in TreeNodes(rb) :
          /\ RBGetLeftmost(rb, n) \in Subtree(rb, n)
          /\ rb.key[RBGetLeftmost(rb, n)] = Least(SubtreeKeys(rb, n))
          /\ RBGetRightmost(rb, n) \in Subtree(rb, n)
          /\ rb.key[RBGetRightmost(rb, n)] = Greatest(SubtreeKeys(rb, n))
    /\ Size > 0 =>
          /\ avl.key[AVLGetLeftmost(avl, avl.root)] = Least(DOMAIN contents)
          /\ avl.key[AVLGetRightmost(avl, avl.root)] = Greatest(DOMAIN contents)
          /\ rb.key[RBGetLeftmost(rb, rb.root)] = Least(DOMAIN contents)
          /\ rb.key[RBGetRightmost(rb, rb.root)] = Greatest(DOMAIN contents)

\* The rightmost node of the AVL tree and the leftmost node of the red-black
\* tree are both two levels below the root.
C15_Witness ==
    /\ avl.root # NONE
    /\ avl.right[avl.root] # NONE
    /\ AVLGetRightmost(avl, avl.root) = avl.right[avl.right[avl.root]]
    /\ rb.root # NIL
    /\ rb.left[rb.root] # NIL
    /\ RBGetLeftmost(rb, rb.root) = rb.left[rb.left[rb.root]]

\* The parent references of tree t agree with its child references: the root
\* has no parent, and the parent of every other reachable node c is a
\* reachable node that holds c as its left or as its right child.
ParentLinksConsistent(t) ==
    /\ t.root # NONE => t.parent[t.root] = NONE
    /\ \A c \in TreeNodes(t) \ {t.root} :
          /\ t.parent[c] \in TreeNodes(t)
          /\ t.left[t.parent[c]] = c \/ t.right[t.parent[c]] = c
    /\ \A p \in TreeNodes(t) :
          /\ t.left[p] # NONE => t.parent[t.left[p]] = p
          /\ t.right[p] # NONE => t.parent[t.right[p]] = p

\* C16: after every completed insert or delete, in either tree, the root's
\* parent is absent and the parent reference of every reachable node is
\* exactly the node it hangs below.
C16_ParentLinks ==
    /\ ParentLinksConsistent(avl)
    /\ ParentLinksConsistent(rb)

\* A delete of a present key has completed and left three keys, so that the
\* root of each tree has two children whose parent references name it.
C16_Witness ==
    /\ lastCall.op = "delete" /\ lastCall.present
    /\ Size >= 3
    /\ avl.left[avl.root] # NONE /\ avl.right[avl.root] # NONE
    /\ avl.parent[avl.left[avl.root]] = avl.root
    /\ rb.left[rb.root] # NIL /\ rb.right[rb.root] # NIL
    /\ rb.parent[rb.right[rb.root]] = rb.root

(***************************************************************************)
(* A second client: only inserts, each of a key the maps do not hold yet,  *)
(* as in test_binary_search_tree_traversal_random.  No key is inserted      *)
(* twice, so the run ends by itself and the trees grow deeper than under   *)
(* Spec.                                                                   *)
(***************************************************************************)
MaxDistinct == 6
DistinctKeys == 1..MaxDistinct

InsertDistinct(k, v) ==
    /\ k \notin DOMAIN contents
    /\ Return(AVLCollect(AVLInsert(Call(avl), k, v)),
              RBCollect(RBInsert(Call(rb), k, v)))
    /\ contents' = [x \in DOMAIN contents \cup {k} |->
                       IF x = k THEN v ELSE contents[x]]
    /\ lastCall' = [op |-> "insert", key |-> k, present |-> FALSE]
    /\ result' = NoResult
    /\ UNCHANGED pc

NextInserts == \E k \in DistinctKeys, v \in Data : InsertDistinct(k, v)

SpecInserts == Init /\ [][NextInserts]_vars

\* C19: on every AVL tree built by inserts of distinct keys, each of the
\* four explicit-stack traversals (pre-order, in-order, reverse in-order,
\* post-order) is exhausted without an exception after finitely many rounds
\* of its loop and has yielded the same sequence of (key, data) pairs as the
\* recursive traversal of the same name.
C19_StackAgreesWithRecursion ==
    Size >= 1 =>
        /\ AVLPreorderTraverseWith(avl, FALSE) = AVLPreorderTraverseWith(avl, TRUE)
        /\ AVLInorderTraverseWith(avl, FALSE) = AVLInorderTraverseWith(avl, TRUE)
        /\ AVLReverseInorderTraverseWith(avl, FALSE)
              = AVLReverseInorderTraverseWith(avl, TRUE)
        /\ AVLPostorderTraverseWith(avl, FALSE) = AVLPostorderTraverseWith(avl, TRUE)
        /\ AVLPostorderTraverseWith(avl, FALSE).err = "none"

\* A tree of height two whose root has two children, one of them with two
\* children of its own and one with a single child: the explicit-stack loops
\* push a right child below its parent, pop past it and swap with it.
C19_Witness ==
    /\ Size >= 6
    /\ AVLGetHeight(avl, avl.root) = 2
    /\ \E n \in TreeNodes(avl) :
          n # avl.root /\ avl.left[n] # NONE /\ avl.right[n] # NONE
    /\ \E n \in TreeNodes(avl) :
          n # avl.root /\ (avl.left[n] = NONE) # (avl.right[n] = NONE)
    /\ Len(AVLPostorderTraverseWith(avl, FALSE).out) = Size

(***************************************************************************)
(* A third client: test_simple_case and test_traversal.  The keys of the   *)
(* basic_tree fixture are inserted in the order of the fixture, each with  *)
(* some data; the number of keys held tells which key comes next.          *)
(***************************************************************************)
InsertBasicTree(v) ==
    /\ Size < Len(basic_tree)
    /\ Return(AVLCollect(AVLInsert(Call(avl), basic_tree[Size + 1], v)),
              RBCollect(RBInsert(Call(rb), basic_tree[Size + 1], v)))
    /\ contents' = [x \in DOMAIN contents \cup {basic_tree[Size + 1]} |->
                       IF x = basic_tree[Size + 1] THEN v ELSE contents[x]]
    /\ lastCall' = [op |-> "insert", key |-> basic_tree[Size + 1],
                    present |-> FALSE]
    /\ result' = NoResult
    /\ UNCHANGED pc

NextBasicTree == \E v \in Data : InsertBasicTree(v)

SpecBasicTree == Init /\ [][NextBasicTree]_vars

\* The keys of a sequence of (key, data) pairs.
KeysOf(pairs) == [i \in 1..Len(pairs) |-> pairs[i][1]]

Reversed(s) == [i \in 1..Len(s) |-> s[Len(s) + 1 - i]]

\* The number of edges from the root of t down to node n.
RECURSIVE Depth(_, _)
Depth(t, n) == IF n = t.root THEN 0 ELSE 1 + Depth(t, t.parent[n])

\* pairs lists every node of t once, level by level from the root and from
\* left to right within a level.
IsLevelorder(t, pairs) ==
    /\ Len(pairs) = Cardinality(TreeNodes(t))
    /\ \A n \in TreeNodes(t) : \E i \in 1..Len(pairs) : pairs[i] = Pair(t, n)
    /\ \A n, m \in TreeNodes(t) : \A i, j \in 1..Len(pairs) :
          (pairs[i] = Pair(t, n) /\ pairs[j] = Pair(t, m) /\ i < j)
             => \/ Depth(t, n) < Depth(t, m)
                \/ Depth(t, n) = Depth(t, m) /\ t.key[n] < t.key[m]

\* C18: on a red-black tree that holds at least one key, every function of
\* the traversal module is exhausted without an exception and has yielded
\* the (key, data) pairs of the nodes, and of nothing else, in its order:
\* in-order, reverse in-order, pre-order and post-order in the recursive and
\* in the explicit-stack form, and level-order.
C18_TraversalModuleOnRBTree ==
    Size >= 1 =>
        /\ \A recursive \in BOOLEAN :
              /\ RBTraversalInorderTraverse(rb, recursive)
                    = Exhausted(RBInorderTraverse(rb))
              /\ RBTraversalReverseInorderTraverse(rb, recursive)
                    = Exhausted(Reversed(RBInorderTraverse(rb)))
              /\ RBTraversalPreorderTraverse(rb, recursive)
                    = Exhausted(RBPreorderTraverse(rb))
              /\ RBTraversalPostorderTraverse(rb, recursive)
                    = Exhausted(RBPostorderTraverse(rb))
        /\ RBTraversalLevelorderTraverse(rb).err = "none"
        /\ IsLevelorder(rb, RBTraversalLevelorderTraverse(rb).out)

\* The same statement about the AVL tree, which the module supports.
TraversalModuleOnAVLTree ==
    Size >= 1 =>
        /\ \A recursive \in BOOLEAN :
              /\ AVLInorderTraverseWith(avl, recursive) = Exhausted(ContentsPairs)
              /\ AVLReverseInorderTraverseWith(avl, recursive)
                    = Exhausted(Reversed(ContentsPairs))
              /\ AVLPreorderTraverseWith(avl, recursive)
                    = Exhausted(AVLPreorderFrom(avl, avl.root))
              /\ AVLPostorderTraverseWith(avl, recursive)
                    = Exhausted(AVLPostorderFrom(avl, avl.root))
        /\ AVLLevelorderTraverse(avl).err = "none"
        /\ IsLevelorder(avl, AVLLevelorderTraverse(avl).out)

(***************************************************************************)
(* A fourth client: the calls of the first client and, between them, the   *)
(* calls that only read.  The body of a reading method assigns no          *)
(* attribute of the tree or of a node; what it returns is kept in result,  *)
(* as the pair of what the AVL tree and what the red-black tree returned.  *)
(* A node is returned by reference: result holds its identifier.           *)
(***************************************************************************)
MaxReadKey == 3
ReadKeys == 1..MaxReadKey

\* A slip in a reading method: the descent moves the root reference of the
\* tree instead of a local variable.
ReadOnlyRerooting(t) ==
    IF t.root = NONE THEN t ELSE [t EXCEPT !.root = t.left[t.root]]

\* The tree object after a call of a method that only reads.
ReadOnly(t) == t

NodeQueries == {"get_leftmost", "get_rightmost", "get_successor",
                "get_predecessor", "get_height"}

AVLNodeQuery(t, op, node) ==
    CASE op = "get_leftmost" -> AVLGetLeftmost(t, node)
      [] op = "get_rightmost" -> AVLGetRightmost(t, node)
      [] op = "get_successor" -> AVLGetSuccessor(t, node)
      [] op = "get_predecessor" -> AVLGetPredecessor(t, node)
      [] op = "get_height" -> AVLGetHeight(t, node)

RBNodeQuery(t, op, node) ==
    CASE op = "get_leftmost" -> RBGetLeftmost(t, node)
      [] op = "get_rightmost" -> RBGetRightmost(t, node)
      [] op = "get_successor" -> RBGetSuccessor(t, node)
      [] op = "get_predecessor" -> RBGetPredecessor(t, node)
      [] op = "get_height" -> RBGetHeight(t, node)

\* The traversals of an AVL tree are those of the traversal module; a
\* red-black tree has its own in-order, pre-order and post-order methods.
AVLTraversals == {"inorder", "inorder_non_recursive", "reverse_inorder",
                  "reverse_inorder_non_recursive", "preorder",
                  "preorder_non_recursive", "postorder",
                  "postorder_non_recursive", "levelorder"}
RBTraversals == {"inorder", "preorder", "postorder"}

AVLTraversal(t, op) ==
    CASE op = "inorder" -> AVLInorderTraverseWith(t, TRUE)
      [] op = "inorder_non_recursive" -> AVLInorderTraverseWith(t, FALSE)
      [] op = "reverse_inorder" -> AVLReverseInorderTraverseWith(t, TRUE)
      [] op = "reverse_inorder_non_recursive" ->
             AVLReverseInorderTraverseWith(t, FALSE)
      [] op = "preorder" -> AVLPreorderTraverseWith(t, TRUE)
      [] op = "preorder_non_recursive" -> AVLPreorderTraverseWith(t, FALSE)
      [] op = "postorder" -> AVLPostorderTraverseWith(t, TRUE)
      [] op = "postorder_non_recursive" -> AVLPostorderTraverseWith(t, FALSE)
      [] op = "levelorder" -> AVLLevelorderTraverse(t)

RBTraversal(t, op) ==
    CASE op = "inorder" -> RBInorderTraverse(t)
      [] op = "preorder" -> RBPreorderTraverse(t)
      [] op = "postorder" -> RBPostorderTraverse(t)
      [] OTHER -> << >>

\* What a call that only reads returns in the present state.
Answer(call) ==
    IF call.op = "search"
    THEN [avl |-> AVLSearch(avl, call.key), rb |-> RBSearch(rb, call.key)]
    ELSE IF call.op \in NodeQueries
    THEN [avl |-> AVLNodeQuery(avl, call.op, AVLSearch(avl, call.key)),
          rb |-> RBNodeQuery(rb, call.op, RBSearch(rb, call.key))]
    ELSE [avl |-> AVLTraversal(avl, call.op), rb |-> RBTraversal(rb, call.op)]

\* The end of a call that only reads.
Read(call) ==
    /\ Return(ReadOnly(Call(avl)), ReadOnly(Call(rb)))
    /\ result' = Answer(call)
    /\ lastCall' = call
    /\ UNCHANGED <<contents, pc>>

Search(k) == Read([op |-> "search", key |-> k, present |-> k \in DOMAIN contents])

\* get_leftmost, get_rightmost, get_successor, get_predecessor or get_height
\* of the node that search(k) returns.
NodeQuery(op, k) ==
    /\ k \in DOMAIN contents
    /\ Read([op |-> op, key |-> k, present |-> TRUE])

Traverse(op) ==
    /\ Read([op |-> op, key |-> 0, present |-> FALSE])

NextReads ==
    \/ \E k \in ReadKeys, v \in Data : Insert(k, v)
    \/ \E k \in ReadKeys : Delete(k)
    \/ \E k \in ReadKeys : Search(k)
    \/ \E op \in NodeQueries, k \in ReadKeys : NodeQuery(op, k)
    \/ \E op \in AVLTraversals : Traverse(op)

SpecReads == Init /\ [][NextReads]_vars

ReadOps == {"search"} \cup NodeQueries \cup AVLTraversals

test_data ==
    << <<"insert", 4>>, <<"insert", 10>>, <<"insert", 12>>, <<"insert", 11>>,
       <<"delete", 4>>, <<"insert", 9>>, <<"insert", 1>>, <<"insert", 14>>,
       <<"insert", 13>>, <<"delete", 1>>, <<"insert", 2>>, <<"insert", 5>>,
       <<"insert", 7>>, <<"insert", 8>>, <<"delete", 5>>, <<"delete", 2>>,
       <<"insert", 6>>, <<"insert", 3>> >>

OperationInsert(k, v) ==
    /\ Return(AVLCollect(AVLInsert(Call(avl), k, v)),
              RBCollect(RBInsert(Call(rb), k, v)))
    /\ contents' = IF k \in DOMAIN contents THEN contents
                   ELSE [x \in DOMAIN contents \cup {k} |->
                            IF x = k THEN v ELSE contents[x]]
    /\ lastCall' = [op |-> "insert", key |-> k, present |-> k \in DOMAIN contents]

OperationDelete(k) ==
    /\ Return(AVLCollect(AVLDelete(Call(avl), k)),
              RBCollect(RBDelete(Call(rb), k)))
    /\ contents' = [x \in DOMAIN contents \ {k} |-> contents[x]]
    /\ lastCall' = [op |-> "delete", key |-> k, present |-> k \in DOMAIN contents]

\* One round of the loop.
Operation(v) ==
    /\ pc < Len(test_data)
    /\ IF test_data[pc + 1][1] = "insert"
       THEN OperationInsert(test_data[pc + 1][2], v)
       ELSE OperationDelete(test_data[pc + 1][2])
    /\ result' = NoResult
    /\ pc' = pc + 1

NextOperations == \E v \in Data : Operation(v)

SpecOperations == Init /\ [][NextOperations]_vars

\* The least n + 2 for which h <= 1.4405 * log2(n + 2) - 0.3277, that is the
\* least integer not below 2 ^ ((h + 0.3277) / 1.4405), for h = 0, 1, ...
AVLBoundArgument == <<2, 2, 4, 5, 9, 13, 22, 34, 55>>

\* h <= 1.4405 * log2(n + 2) - 0.3277
WithinAVLBound(h, n) == h < 0 \/ n + 2 >= AVLBoundArgument[h + 1]

\* h <= 2 * log2(n + 1), that is 2 ^ h <= (n + 1) ^ 2
WithinRBBound(h, n) == h < 0 \/ 2 ^ h <= (n + 1) * (n + 1)

\* C20: whenever the maps hold n >= 1 keys, the height of the AVL tree, in
\* edges on its longest path from the root down, is at most
\* 1.4405 * log2(n + 2) - 0.3277, and the height of the red-black tree is at
\* most 2 * log2(n + 1).
C20_HeightBound ==
    Size >= 1 =>
        /\ WithinAVLBound(TrueHeight(avl, avl.root), Size)
        /\ WithinRBBound(TrueHeight(rb, rb.root), Size)

\* The part of C20 about the AVL tree.
AVLHeightBound ==
    Size >= 1 => WithinAVLBound(TrueHeight(avl, avl.root), Size)

C22_FixupForEveryBlack ==
    [][(/\ lastCall'.op = "delete" /\ lastCall'.present
        /\ RBDeleteOriginalColor(rb, RBSearch(rb, lastCall'.key)) = BLACK)
          => RBDeleteFixupGuard(
                 RBDeleteOriginalColor(rb, RBSearch(rb, lastCall'.key)),
                 RBDeleteFixingNode(rb, RBSearch(rb, lastCall'.key)))]_vars

\* The height the subtree rooted at n takes when k is hung below it as a new
\* leaf and nothing is rotated.
RECURSIVE HeightWithLeaf(_, _, _)
HeightWithLeaf(t, n, k) ==
    IF n = NONE THEN 0
    ELSE IF k < t.key[n]
    THEN 1 + Max(HeightWithLeaf(t, t.left[n], k), TrueHeight(t, t.right[n]))
    ELSE 1 + Max(TrueHeight(t, t.left[n]), HeightWithLeaf(t, t.right[n], k))

\* The nodes on the search path of k, from the root down.
RECURSIVE SearchPath(_, _, _)
SearchPath(t, n, k) ==
    IF n = NONE THEN << >>
    ELSE <<n>> \o SearchPath(t, IF k < t.key[n] THEN t.left[n] ELSE t.right[n], k)

\* n loses its balance when k is hung below it.
Unbalances(t, n, k) ==
    IF k < t.key[n]
    THEN HeightWithLeaf(t, t.left[n], k) - TrueHeight(t, t.right[n]) = 2
    ELSE HeightWithLeaf(t, t.right[n], k) - TrueHeight(t, t.left[n]) = 2

\* The keys of the nodes that lose their balance when k is hung into t, the
\* lowest one last.
UnbalancedBy(t, k) ==
    SelectSeq([i \in 1..Len(SearchPath(t, t.root, k)) |->
                  t.key[SearchPath(t, t.root, k)[i]]],
              LAMBDA x : Unbalances(t, AVLSearch(t, x), k))

\* The proper ancestors of the node that holds key g.
ProperAncestors(t, g) ==
    { n \in TreeNodes(t) : AVLSearch(t, g) \in Subtree(t, n) \ {n} }

\* A single rotation, or a double one: the child away from its parent, then
\* the parent the other way.
OneRebalancing(t, log) ==
    \/ Len(log) = 1
    \/ /\ Len(log) = 2
       /\ log[1].left # log[2].left
       /\ t.key[t.parent[AVLSearch(t, log[1].at)]] # log[2].at
       /\ t.parent[AVLSearch(t, log[1].at)] = t.parent[AVLSearch(t, log[2].at)]

\* C23: an insert of a new key into the AVL tree rotates only when some
\* ancestor of the new node loses its balance, and then makes one single or
\* one double rotation, at the lowest such ancestor; the stored heights of
\* the ancestors above it are not touched, and every node of the tree is in
\* balance when insert returns.
C23_AtMostOneRebalancing ==
    [][(lastCall'.op = "insert" /\ ~lastCall'.present) =>
         /\ avlErr' = "none"
         /\ (rotated' = << >>) = (UnbalancedBy(avl, lastCall'.key) = << >>)
         /\ rotated' # << >> =>
              /\ OneRebalancing(avl', rotated')
              /\ rotated'[Len(rotated')].at
                   = UnbalancedBy(avl, lastCall'.key)[Len(UnbalancedBy(avl, lastCall'.key))]
              /\ \A a \in ProperAncestors(avl, rotated'[Len(rotated')].at) :
                     avl'.height[a] = avl.height[a]
         /\ \A n \in TreeNodes(avl') :
                Abs(TrueHeight(avl', avl'.left[n]) - TrueHeight(avl', avl'.right[n])) <= 1]_vars

\* An insert made a double rotation below the root, under an ancestor that
\* was not looked at.
C23_Witness ==
    /\ lastCall.op = "insert"
    /\ Len(rotated) = 2
    /\ avl.parent[avl.parent[AVLSearch(avl, rotated[2].at)]] # NONE

\* The node that holds key g in the AVL tree t.
Holder(t, g) == AVLSearch(t, g)

\* C24: when an insert into the AVL tree rotates at the ancestor g, the
\* subtree that hangs in the place of g afterwards is as high as the subtree
\* of g was before the insert, its root stores that height, and the stored
\* heights of all the ancestors above it, which are not recomputed, are
\* their true heights.
C24_RotationKeepsHeight ==
    [][(lastCall'.op = "insert" /\ ~lastCall'.present /\ rotated' # << >>) =>
         /\ avl'.parent[avl'.parent[Holder(avl', rotated'[Len(rotated')].at)]]
              = avl.parent[Holder(avl, rotated'[Len(rotated')].at)]
         /\ TrueHeight(avl', avl'.parent[Holder(avl', rotated'[Len(rotated')].at)])
              = TrueHeight(avl, Holder(avl, rotated'[Len(rotated')].at))
         /\ avl'.height[avl'.parent[Holder(avl', rotated'[Len(rotated')].at)]]
              = avl.height[Holder(avl, rotated'[Len(rotated')].at)]
         /\ \A a \in ProperAncestors(avl', rotated'[Len(rotated')].at) :
                avl'.height[a] = TrueHeight(avl', a)]_vars

\* An insert made a single rotation below the root.
C24_Witness ==
    /\ lastCall.op = "insert"
    /\ Len(rotated) = 1
    /\ Cardinality(ProperAncestors(avl, rotated[1].at)) >= 2

\* The lifecycle of the spec for a delete of the two-child node d of the tree
\* before, s the leftmost node of the right subtree of d: in the tree after,
\* d is in the tree with the key and the value of s, and s is not.
OverwriteAndSplice(before, after, d, s) ==
    /\ d \in TreeNodes(after)
    /\ after.key[d] = before.key[s]
    /\ after.data[d] = before.data[s]
    /\ s \notin TreeNodes(after)

\* The AVL tree follows the lifecycle on every delete of a two-child node.
AVLOverwriteAndSplice ==
    [][(/\ lastCall'.op = "delete" /\ lastCall'.present
        /\ avl.left[AVLSearch(avl, lastCall'.key)] # NONE
        /\ avl.right[AVLSearch(avl, lastCall'.key)] # NONE)
          => OverwriteAndSplice(
                 avl, avl', AVLSearch(avl, lastCall'.key),
                 AVLGetLeftmost(avl, avl.right[AVLSearch(avl, lastCall'.key)]))]_vars

\* The red-black tree follows the lifecycle on every delete of a two-child
\* node.
RBOverwriteAndSplice ==
    [][(/\ lastCall'.op = "delete" /\ lastCall'.present
        /\ rb.left[RBSearch(rb, lastCall'.key)] # NIL
        /\ rb.right[RBSearch(rb, lastCall'.key)] # NIL)
          => OverwriteAndSplice(
                 rb, rb', RBSearch(rb, lastCall'.key),
                 RBGetLeftmost(rb, rb.right[RBSearch(rb, lastCall'.key)]))]_vars

\* C25: in both trees a delete of a key whose node d has two children writes
\* the key and the value of the successor s of d into d and takes s out: d
\* is still reachable from the root afterwards and s is not.
C25_TwoChildDeleteLifecycle == AVLOverwriteAndSplice /\ RBOverwriteAndSplice

\* The first-time insertion of a list of distinct keys into an empty AVL
\* tree, the case the inversion count is kept for: up to MaxCounted keys, in
\* every order.
MaxCounted == 8
CountedKeys == 1..MaxCounted

InsertCounted(k, v) ==
    /\ k \notin DOMAIN contents
    /\ Return(AVLCollect(AVLInsert(Call(avl), k, v)), Call(rb))
    /\ contents' = [x \in DOMAIN contents \cup {k} |->
                       IF x = k THEN v ELSE contents[x]]
    /\ lastCall' = [op |-> "insert", key |-> k, present |-> FALSE]
    /\ result' = NoResult
    /\ UNCHANGED pc

NextCounted == \E k \in CountedKeys : InsertCounted(k, 1)

SpecCounted == Init /\ [][NextCounted]_vars

\* C26: every insert of a new key into an AVL tree that was filled by
\* inserts only raises inversion_count by the number of keys inserted before
\* that are greater than the new key, so that inversion_count is the number
\* of inversions of the inserted sequence.
C26_InversionCount ==
    [][lastCall'.op = "insert" =>
         avl'.inversion_count - avl.inversion_count
           = Cardinality({ x \in DOMAIN contents : x > lastCall'.key })]_vars

MaxLoopKey == 5
LoopKeys == 1..MaxLoopKey

NextLoops ==
    \/ \E k \in LoopKeys : Insert(k, 1)
    \/ \E k \in LoopKeys : Delete(k)

SpecLoops == Init /\ [][NextLoops]_vars

\* C28: every insert and every delete of either tree returns: no fixup loop
\* is still running after StepLimit rounds, and each call makes at most one
\* round more than the tree has keys when the call is over.
C28_Termination ==
    /\ avlErr # "diverges" /\ rbErr # "diverges"
    /\ rounds.avl <= Size + 1
    /\ rounds.rb <= Size + 1

\* A delete whose fixup loop made more than one round in the red-black
\* tree, and at least one in the AVL tree.
C28_Witness ==
    /\ lastCall.op = "delete" /\ lastCall.present
    /\ rounds.avl >= 1 /\ rounds.rb >= 2
    /\ avlErr = "none" /\ rbErr = "none"

\* C29: after every insert and delete, each node of the AVL tree stores the
\* true height of its subtree: 0 for a node without children, and one more
\* than the higher of its subtrees otherwise, an absent subtree counting -1.
C29_StoredHeightsExact ==
    \A n \in TreeNodes(avl) : avl.height[n] = TrueHeight(avl, n)

\* An insert that ran no fixup, its parent having two children now.
C29_Witness ==
    /\ lastCall.op = "insert" /\ ~lastCall.present
    /\ rounds.avl = 0
    /\ avl.parent[AVLSearch(avl, lastCall.key)] # NONE
    /\ avl.left[avl.parent[AVLSearch(avl, lastCall.key)]] # NONE
    /\ avl.right[avl.parent[AVLSearch(avl, lastCall.key)]] # NONE

\* C30: on an empty AVL tree every entry point of the traversal module, the
\* recursive and the non-recursive form of the four depth-first orders and
\* the level order, yields the empty sequence and raises nothing.
C30_EmptyTreeTraversal ==
    avl.root = NONE =>
        /\ \A recursive \in BOOLEAN :
              /\ AVLInorderTraverseWith(avl, recursive) = Exhausted(<< >>)
              /\ AVLReverseInorderTraverseWith(avl, recursive) = Exhausted(<< >>)
              /\ AVLPreorderTraverseWith(avl, recursive) = Exhausted(<< >>)
              /\ AVLPostorderTraverseWith(avl, recursive) = Exhausted(<< >>)
        /\ AVLLevelorderTraverse(avl) = Exhausted(<< >>)

\* The recursive forms yield the empty sequence on an empty AVL tree.
RecursiveOnEmptyTree ==
    avl.root = NONE =>
        /\ AVLInorderTraverseWith(avl, TRUE) = Exhausted(<< >>)
        /\ AVLReverseInorderTraverseWith(avl, TRUE) = Exhausted(<< >>)
        /\ AVLPreorderTraverseWith(avl, TRUE) = Exhausted(<< >>)
        /\ AVLPostorderTraverseWith(avl, TRUE) = Exhausted(<< >>)
====
